---- MODULE Spec2Model ----
(***************************************************************************)
(* Sub-issue closer: the recursive traversal of lib/core.js                *)
(* (processIssueRecursively with getIssue, getSubIssues and closeIssue)    *)
(* run against a remote issue store.  Every await of the code is one       *)
(* action; the store's answer to the awaited request is chosen there.      *)
(***************************************************************************)
EXTENDS Integers, Sequences, FiniteSets, TLC

\* ---------------------------------------------------------------- bounds
\* Number of issues in the hierarchy (issue 1 is the root).
MaxItems == 4

Items == 1..MaxItems

\* ------------------------------------------------------- the issue store
\* Issues live in two repositories; numbers are those of the hierarchy.
OwnerOf(i) == IF i % 2 = 1 THEN "owner" ELSE "other-owner"

RepoOf(i) == IF i % 2 = 1 THEN "repo" ELSE "other-repo"

NumberOf(i) == i

\* The issue a request for owner/repo#number addresses, 0 when there is none.
ItemAt(o, r, n) ==
  IF \E i \in Items : OwnerOf(i) = o /\ RepoOf(i) = r /\ NumberOf(i) = n
  THEN CHOOSE i \in Items : OwnerOf(i) = o /\ RepoOf(i) = r /\ NumberOf(i) = n
  ELSE 0

\* Hierarchies: every issue but the root has one parent, of a smaller number.
Trees == { t \in [2..MaxItems -> Items] : \A i \in 2..MaxItems : t[i] < i }

ChildSet(t, i) == { j \in 2..MaxItems : t[j] = i }

RECURSIVE Ascending(_)
Ascending(S) ==
  IF S = {} THEN <<>>
  ELSE LET m == CHOOSE x \in S : \A y \in S : x <= y
       IN <<m>> \o Ascending(S \ {m})

\* A sub-issue as listSubIssues reports it; repository_url is held as its
\* "/"-separated segments: https://api.github.com/repos/<owner>/<repo>.
SubIssueRecord(j) ==
  [number |-> NumberOf(j),
   repository_url |->
     <<"https:", "", "api.github.com", "repos", OwnerOf(j), RepoOf(j)>>]

RECURSIVE MapSubIssues(_)
MapSubIssues(s) ==
  IF s = <<>> THEN <<>>
  ELSE <<SubIssueRecord(Head(s))>> \o MapSubIssues(Tail(s))

\* The page listSubIssues answers with: the children in the store's order.
SubIssuesPage(t, i) == MapSubIssues(Ascending(ChildSet(t, i)))

\* sub_issues_summary values.  present = FALSE stands for null / undefined.
NoSummary ==
  [present |-> FALSE, total |-> 0, completed |-> 0, percent_completed |-> 0]

Percent(c, t) == IF t = 0 THEN 0 ELSE (100 * c) \div t

Summary(t, c) ==
  [present |-> TRUE, total |-> t, completed |-> c,
   percent_completed |-> Percent(c, t)]

\* The summary a consistent store derives from the children's states.
DerivedSummary(t, st, i) ==
  Summary(Cardinality(ChildSet(t, i)),
          Cardinality({ j \in ChildSet(t, i) : st[j] = "closed" }))

\* Summaries a scripted store may answer with for issue i: the total is the
\* number of its children, the completed count and the presence are free.
ScriptedSummaries(t, i) ==
  {NoSummary} \cup
  { Summary(Cardinality(ChildSet(t, i)), c) :
      c \in 0..Cardinality(ChildSet(t, i)) }

IssueData(s, sm) == [state |-> s, sub_issues_summary |-> sm]

NoIssue == IssueData("", NoSummary)

\* Statuses of a failing store request.
FailureStatuses == {404, 500}


\* ------------------------------------------------- lib/core.js, the code
\* getSubIssues asks for one page of this size.
PerPage == 100

\* Variant: the first sub-issue of the page is lost.
FirstPageWithoutHead(s) == IF s = <<>> THEN s ELSE Tail(s)

FirstPage(s) == IF Len(s) <= PerPage THEN s ELSE SubSeq(s, 1, PerPage)

\* The error a failed store request rejects with.
StoreError(op, s) ==
  [status |-> s, thrownBy |-> op, issue_number |-> 0, owner |-> "", repo |-> ""]

\* Variant: getIssue rethrows the 404 as it is.
GetIssueErrorRethrown(s, o, r, n) == StoreError("get", s)

\* Variant: getIssue wraps every failure in its own error.
GetIssueErrorWrapped(s, o, r, n) ==
  [status |-> 0, thrownBy |-> "getIssue", issue_number |-> n,
   owner |-> o, repo |-> r]

\* getIssue: a 404 becomes a new error naming the issue, any other error
\* is rethrown as it is.
GetIssueError(s, o, r, n) ==
  IF s = 404
  THEN [status |-> 0, thrownBy |-> "getIssue", issue_number |-> n,
        owner |-> o, repo |-> r]
  ELSE StoreError("get", s)

NoError == StoreError("", 0)

\* Variant: getSubIssues rethrows the 404 as well.
GetSubIssuesAbsorbsNothing(s) == FALSE

\* getSubIssues: a 404 is an empty list.
GetSubIssuesAbsorbs(s) == s = 404

\* Variant: the closed check never fires.
IsClosedNever(issue) == FALSE

IsClosed(issue) == issue.state = "closed"

\* Variant: only a missing summary counts, a total of 0 does not.
HasNoSubIssuesNullOnly(subIssueSummary) == ~subIssueSummary.present

HasNoSubIssues(subIssueSummary) ==
  \/ ~subIssueSummary.present
  \/ subIssueSummary.total = 0

\* Variant: an already closed issue counts as processed.
ClosedResultCounted == [processed |-> 1, closed |-> 0]

ClosedResult == [processed |-> 0, closed |-> 0]

\* Variant: an issue without sub-issues counts as closed.
LeafResultCounted == [processed |-> 1, closed |-> 1]

LeafResult == [processed |-> 1, closed |-> 0]

InitialProcessed == 1

InitialClosed == 0

\* Variant: the owner is read one segment too far to the left.
SubOwnerWrongSegment(url) == url[Len(url) - 2]

\* subIssue.repository_url.split("/").slice(-2, -1)[0] and .pop()
SubOwner(url) == url[Len(url) - 1]

SubRepo(url) == url[Len(url)]

AddProcessed(totalProcessed, result) == totalProcessed + result.processed

\* Variant: the closures of a sub-issue's subtree are dropped.
AddClosedDropped(totalClosed, result) == totalClosed

AddClosed(totalClosed, result) == totalClosed + result.closed

\* Variant: the decision reads the summary of the first fetch.
UpdatedSummaryStale(issue, updatedIssue) == issue.sub_issues_summary

\* The summary the closure decision reads.
UpdatedSummary(issue, updatedIssue) == updatedIssue.sub_issues_summary

\* Variant: half complete is enough to close.
ShouldCloseMostly(updatedSummary) ==
  /\ updatedSummary.present
  /\ updatedSummary.percent_completed >= 50

ShouldClose(updatedSummary) ==
  /\ updatedSummary.present
  /\ updatedSummary.percent_completed = 100

\* Variant: the dry-run flag is ignored.
IsDryRunIgnored(d) == FALSE

IsDryRun(d) == d

WouldCloseCount(totalClosed) == totalClosed + 1

\* Variant: a live closure is not counted.
ClosedCountForgotten(totalClosed) == totalClosed

ClosedCount(totalClosed) == totalClosed + 1

\* console.log calls guarded by `if (verbose)`.
VerboseLines(v, n) == IF v THEN n ELSE 0

CloseReason == "All sub-issues are now complete"

\* Variant: closeIssue posts the comment without the update before it.
FirstCloseStepComment == "comment"

\* closeIssue begins with issues.update.
FirstCloseStep == "update"

\* ------------------------------------------------------ parseIssueInput
\* Longest issue reference tried.
MaxLen == 6

\* A string is a sequence of symbols: single characters, and words such as
\* github.com and issues taken whole.
Symbols == {"a", "/", "#", "0", "1"}

StringsOver(A, n) == UNION { [1..k -> A] : k \in 0..n }

Strings(n) == StringsOver(Symbols, n)

\* References in the shape of an issue URL, well formed or not: with or
\* without a scheme, on github.com or elsewhere, with owner and repository
\* segments that may be missing, with or without digits, with or without
\* something behind.
UrlStrings ==
  { scheme \o <<host, "/">> \o o \o <<"/">> \o r \o <<"/", word, "/">>
      \o d \o rest :
    scheme \in {<<>>, <<"https:", "/", "/">>, <<"http:", "/", "/">>},
    host \in {"github.com", "gitlab.com"},
    o \in StringsOver({"a"}, 1),
    r \in StringsOver({"a"}, 1),
    word \in {"issues", "pull"},
    d \in StringsOver({"0", "1"}, 2),
    rest \in {<<>>, <<"/">>, <<"#", "1">>} }

\* The references index.js is given.
References(n) == Strings(n) \cup UrlStrings

\* The characters matched by \d.
DigitChars == <<"0", "1", "2", "3", "4", "5", "6", "7", "8", "9">>

IsDigit(c) == \E k \in DOMAIN DigitChars : DigitChars[k] = c

DigitValue(c) == (CHOOSE k \in DOMAIN DigitChars : DigitChars[k] = c) - 1

\* A greedy [^x]+ started at position p ends before the first symbol of
\* stop at or after p (or at the end of s): the position after the run.
RECURSIVE RunEnd(_, _, _)
RunEnd(s, p, stop) ==
  IF p > Len(s) \/ s[p] \in stop THEN p ELSE RunEnd(s, p + 1, stop)

\* A greedy \d+ started at position p: the position after the run.
RECURSIVE DigitRunEnd(_, _)
DigitRunEnd(s, p) ==
  IF p > Len(s) \/ ~IsDigit(s[p]) THEN p ELSE DigitRunEnd(s, p + 1)

\* Variant: only the first digit is read.
ParseIntFirstDigit(ds) == DigitValue(ds[1])

\* parseInt of a run of decimal digits.
RECURSIVE ParseInt(_)
ParseInt(ds) ==
  IF Len(ds) = 1 THEN DigitValue(ds[1])
  ELSE 10 * ParseInt(SubSeq(ds, 1, Len(ds) - 1)) + DigitValue(ds[Len(ds)])

\* The result of String.prototype.match: null, or the three groups.
NoMatch == [matched |-> FALSE, g1 |-> <<>>, g2 |-> <<>>, g3 |-> <<>>]

Groups(s, a1, a2, b1, b2, c1, c2) ==
  [matched |-> TRUE, g1 |-> SubSeq(s, a1, a2), g2 |-> SubSeq(s, b1, b2),
   g3 |-> SubSeq(s, c1, c2)]

\* Variant: the owner group runs up to the last '/' before the '#'.
ShortMatchLongOwner(s) ==
  LET b == RunEnd(s, 1, {"#"})
      slashes == { k \in 1..(b - 1) : s[k] = "/" }
      a == IF slashes = {} THEN 0
           ELSE CHOOSE k \in slashes : \A l \in slashes : l <= k
      c == DigitRunEnd(s, b + 1)
  IN IF /\ a > 1
        /\ b > a + 1
        /\ b <= Len(s)
        /\ c > b + 1
        /\ c = Len(s) + 1
     THEN Groups(s, 1, a - 1, a + 1, b - 1, b + 1, c - 1)
     ELSE NoMatch

\* issueInput.match(/^([^\/]+)\/([^#]+)#(\d+)$/)
ShortMatch(s) ==
  LET a == RunEnd(s, 1, {"/"})
      b == RunEnd(s, a + 1, {"#"})
      c == DigitRunEnd(s, b + 1)
  IN IF /\ a > 1
        /\ a <= Len(s)
        /\ b > a + 1
        /\ b <= Len(s)
        /\ c > b + 1
        /\ c = Len(s) + 1
     THEN Groups(s, 1, a - 1, a + 1, b - 1, b + 1, c - 1)
     ELSE NoMatch

\* Variant: the URL pattern accepts any host.
UrlMatchAtAnyHost(s, k) ==
  LET a == RunEnd(s, k + 2, {"/"})
      b == RunEnd(s, a + 1, {"/"})
      c == DigitRunEnd(s, b + 3)
  IN IF /\ k + 1 <= Len(s)
        /\ s[k] \in {"github.com", "gitlab.com"}
        /\ s[k + 1] = "/"
        /\ a > k + 2
        /\ a <= Len(s)
        /\ b > a + 1
        /\ b + 2 <= Len(s)
        /\ s[b + 1] = "issues"
        /\ s[b + 2] = "/"
        /\ c > b + 3
     THEN Groups(s, k + 2, a - 1, a + 1, b - 1, b + 3, c - 1)
     ELSE NoMatch

\* The URL pattern tried at position k of s.
UrlMatchAt(s, k) ==
  LET a == RunEnd(s, k + 2, {"/"})
      b == RunEnd(s, a + 1, {"/"})
      c == DigitRunEnd(s, b + 3)
  IN IF /\ k + 1 <= Len(s)
        /\ s[k] = "github.com"
        /\ s[k + 1] = "/"
        /\ a > k + 2
        /\ a <= Len(s)
        /\ b > a + 1
        /\ b + 2 <= Len(s)
        /\ s[b + 1] = "issues"
        /\ s[b + 2] = "/"
        /\ c > b + 3
     THEN Groups(s, k + 2, a - 1, a + 1, b - 1, b + 3, c - 1)
     ELSE NoMatch

\* issueInput.match(/github\.com\/([^\/]+)\/([^\/]+)\/issues\/(\d+)/): the
\* leftmost position at which the pattern matches.
UrlMatch(s) ==
  LET starts == { k \in 1..Len(s) : UrlMatchAt(s, k).matched }
  IN IF starts = {} THEN NoMatch
     ELSE UrlMatchAt(s, CHOOSE k \in starts : \A l \in starts : k <= l)

\* parseIssueInput returns null.
Null == [found |-> FALSE, owner |-> <<>>, repo |-> <<>>, issue_number |-> 0]

IssueInfo(m) ==
  [found |-> TRUE, owner |-> m.g1, repo |-> m.g2,
   issue_number |-> ParseInt(m.g3)]

\* Variant: the URL form is tried first.
ParseIssueInputUrlFirst(s) ==
  IF UrlMatch(s).matched THEN IssueInfo(UrlMatch(s))
  ELSE IF ShortMatch(s).matched THEN IssueInfo(ShortMatch(s))
  ELSE Null

\* parseIssueInput: the compact form first, then the URL form, else null.
ParseIssueInput(s) ==
  IF ShortMatch(s).matched THEN IssueInfo(ShortMatch(s))
  ELSE IF UrlMatch(s).matched THEN IssueInfo(UrlMatch(s))
  ELSE Null

\* ------------------------------------------- parseArgs and validation
\* Longest argument list handed to parseArgs on its own.
MaxArgs == 3

\* The words an argument list is made of: the options in both spellings, an
\* issue reference, a word that is no option, and the empty string.
ArgWords ==
  {"--issue", "-i", "--token", "-t", "--dry-run", "-d", "--live", "-l",
   "--verbose", "-v", "-y", "--yes", "owner/repo#1", "x", ""}

ArgLists(W, n) == UNION { [1..k -> W] : k \in 0..n }

\* JavaScript's null and undefined where a string may stand.
NullValue == "<null>"

Undefined == "<undefined>"

\* Truthiness of a string, null or undefined.
Truthy(v) == v \notin {NullValue, Undefined, ""}

\* parseArgs starts from these fields (dryRun is null, true or false).
ParsedDefaults ==
  [issue |-> NullValue, token |-> NullValue, dryRun |-> "null",
   verbose |-> FALSE, nonInteractive |-> FALSE]

\* args[++i]: the next argument, undefined behind the end of the list.
ArgAfter(args, i) == IF i + 1 <= Len(args) THEN args[i + 1] ELSE Undefined

\* Variant: the first mode flag wins.
SetDryRunOnce(parsed, v) ==
  IF parsed.dryRun = "null" THEN [parsed EXCEPT !.dryRun = v] ELSE parsed

\* parsed.dryRun = true, parsed.dryRun = false.
SetDryRun(parsed, v) == [parsed EXCEPT !.dryRun = v]

\* The loop of parseArgs from index i on (1-based).
RECURSIVE ParseArgsFrom(_, _, _)
ParseArgsFrom(args, i, parsed) ==
  IF i > Len(args) THEN parsed
  ELSE IF args[i] \in {"--issue", "-i"}
  THEN ParseArgsFrom(args, i + 2,
                     [parsed EXCEPT !.issue = ArgAfter(args, i)])
  ELSE IF args[i] \in {"--token", "-t"}
  THEN ParseArgsFrom(args, i + 2,
                     [parsed EXCEPT !.token = ArgAfter(args, i)])
  ELSE IF args[i] \in {"--dry-run", "-d"}
  THEN ParseArgsFrom(args, i + 1, SetDryRun(parsed, "true"))
  ELSE IF args[i] \in {"--live", "-l"}
  THEN ParseArgsFrom(args, i + 1, SetDryRun(parsed, "false"))
  ELSE IF args[i] \in {"--verbose", "-v"}
  THEN ParseArgsFrom(args, i + 1, [parsed EXCEPT !.verbose = TRUE])
  ELSE IF args[i] \in {"-y", "--yes"}
  THEN ParseArgsFrom(args, i + 1, [parsed EXCEPT !.nonInteractive = TRUE])
  ELSE ParseArgsFrom(args, i + 1, parsed)

ParseArgs(args) == ParseArgsFrom(args, 1, ParsedDefaults)

MissingToken ==
  "token (use -t/--token or set GITHUB_TOKEN environment variable)"

MissingIssue == "issue (use -i/--issue)"

\* Variant: the environment is not consulted.
ValidateNonInteractiveModeArgsOnly(cliArgs, envToken) ==
  (IF ~Truthy(cliArgs.token) THEN <<MissingToken>> ELSE <<>>)
  \o (IF ~Truthy(cliArgs.issue) THEN <<MissingIssue>> ELSE <<>>)

\* validateNonInteractiveMode, with process.env.GITHUB_TOKEN as envToken.
ValidateNonInteractiveMode(cliArgs, envToken) ==
  (IF ~Truthy(cliArgs.token) /\ ~Truthy(envToken)
   THEN <<MissingToken>> ELSE <<>>)
  \o (IF ~Truthy(cliArgs.issue) THEN <<MissingIssue>> ELSE <<>>)

\* What index.js holds besides the traversal: its arguments, the
\* environment, and what it has made of them so far.
NoCli ==
  [args |-> <<>>, envToken |-> Undefined, cliArgs |-> ParsedDefaults,
   missing |-> <<>>, token |-> NullValue, prompts |-> <<>>,
   passed |-> <<>>, exitCode |-> -1, stopped |-> ""]

\* ------------------------------------------------------------ the state
\* getSubIssues and its loop, before any call.
NoListing ==
  [total |-> 0, requests |-> <<>>, subIssues |-> <<>>, visited |-> 0]

VARIABLES
  tree,        \* the hierarchy: parent of every issue but the root
  mode,        \* "consistent": the store answers from issueState;
               \* "scripted": every answer is free, as with a test double
  dryRun,      \* argument dryRun of the run
  verbose,     \* argument verbose of the run
  issueState,  \* the store: state of every issue
  stack,       \* the pending calls of processIssueRecursively, top last
  log,         \* the store requests made so far, with their answers
  rets,        \* the results returned so far by the calls
  seen,        \* per issue: what the reads answered, requests made
  out,         \* number of lines written to the console
  pc,          \* "running", "done" (result returned) or "failed" (threw)
  result,      \* the result of the top-level call
  error,       \* the error the top-level call rejected with
  earlier,     \* the runs made before this one against the same store
  issueInput,  \* the issue reference index.js was given
  issueInfo,   \* what parseIssueInput made of it
  cli,         \* index.js: arguments, environment, and what came of them
  listing      \* getSubIssues: the sub-issues stored, asked for and returned

vars ==
  <<tree, mode, dryRun, verbose, issueState, stack, log, rets, seen, out,
    pc, result, error, earlier, listing, issueInput, issueInfo, cli>>

config == <<tree, mode, dryRun, verbose>>

\* What no step of a traversal touches.
others == <<earlier, issueInput, issueInfo, cli, listing>>

\* One call of processIssueRecursively.
Frame(o, r, n, d) ==
  [owner |-> o, repo |-> r, issue_number |-> n, depth |-> d, at |-> "get",
   issue |-> NoIssue, subIssues |-> <<>>,
   totalProcessed |-> 0, totalClosed |-> 0,
   subProcessed |-> 0, subClosed |-> 0]

Top == stack[Len(stack)]

TopItem == ItemAt(Top.owner, Top.repo, Top.issue_number)

NoArgs == [state |-> "", state_reason |-> "", body |-> "", per_page |-> 0]

\* A store request of the call f, with the status and the data it answered.
Call(op, site, f, args, status, data) ==
  [op |-> op, site |-> site, owner |-> f.owner, repo |-> f.repo,
   issue_number |-> f.issue_number, depth |-> f.depth, args |-> args,
   status |-> status, data |-> data]

\* What the history remembers of an issue: the answers of its first fetch
\* and of its re-fetch, and how many requests of each kind were made for it.
Unseen ==
  [first |-> NoIssue, second |-> NoIssue,
   gets |-> 0, lists |-> 0, updates |-> 0, comments |-> 0, listed |-> 0]

\* What issues.get answers for issue i when it succeeds.  A scripted answer
\* shows the issue open with any summary, or closed with all of its
\* sub-issues complete.
Answers(i) ==
  IF mode = "consistent"
  THEN { IssueData(issueState[i], DerivedSummary(tree, issueState, i)) }
  ELSE { IssueData("open", sm) : sm \in ScriptedSummaries(tree, i) }
       \cup { IssueData("closed",
                        Summary(Cardinality(ChildSet(tree, i)),
                                Cardinality(ChildSet(tree, i)))) }

\* A run that is answered from the record of an earlier run: while its next
\* request is the request the earlier run made at the same position, the
\* store answers it as it answered then.
Scripted(op) ==
  /\ earlier # <<>>
  /\ earlier[1].kind = "replay"
  /\ Len(log) < Len(earlier[1].log)
  /\ earlier[1].log[Len(log) + 1].op = op
  /\ earlier[1].log[Len(log) + 1].owner = Top.owner
  /\ earlier[1].log[Len(log) + 1].repo = Top.repo
  /\ earlier[1].log[Len(log) + 1].issue_number = Top.issue_number

Recorded == earlier[1].log[Len(log) + 1]

\* The statuses of S the store may answer the request op with.
Outcomes(op, S) ==
  IF Scripted(op) THEN { x \in S : x = Recorded.status } ELSE S

\* The issues of S the store may answer a successful issues.get with.
Replies(S) ==
  IF Scripted("get")
  THEN IF Recorded.status = 200 THEN {Recorded.data} ELSE {}
  ELSE S

Init ==
  /\ tree \in Trees
  /\ mode \in {"consistent", "scripted"}
  /\ dryRun \in BOOLEAN
  /\ verbose \in BOOLEAN
  /\ issueState \in [Items -> {"open", "closed"}]
  /\ mode = "scripted" => issueState = [i \in Items |-> "open"]
  /\ stack = <<Frame(OwnerOf(1), RepoOf(1), NumberOf(1), 0)>>
  /\ log = <<>>
  /\ rets = <<>>
  /\ seen = [i \in Items |-> Unseen]
  /\ out = 0
  /\ pc = "running"
  /\ result = ClosedResult
  /\ error = NoError
  /\ earlier = <<>>
  /\ listing = NoListing
  /\ issueInput = <<>>
  /\ issueInfo = Null
  /\ cli = NoCli

\* The call on top returns res: its caller adds it to its totals.
Return(f, res) ==
  /\ rets' = Append(rets,
       [item |-> ItemAt(f.owner, f.repo, f.issue_number),
        owner |-> f.owner, repo |-> f.repo, issue_number |-> f.issue_number,
        depth |-> f.depth, processed |-> res.processed, closed |-> res.closed,
        subProcessed |-> f.subProcessed, subClosed |-> f.subClosed])
  /\ IF Len(stack) = 1
     THEN /\ stack' = <<>>
          /\ result' = res
          /\ pc' = "done"
     ELSE LET caller == stack[Len(stack) - 1]
              merged ==
                [caller EXCEPT
                   !.totalProcessed = AddProcessed(@, res),
                   !.totalClosed = AddClosed(@, res),
                   !.subProcessed = @ + res.processed,
                   !.subClosed = @ + res.closed]
          IN /\ stack' = SubSeq(stack, 1, Len(stack) - 2) \o <<merged>>
             /\ UNCHANGED <<result, pc>>
  /\ UNCHANGED error

\* Variant: the caller catches the error and goes on.
ThrowContained(e) == Return(Top, ClosedResult)

\* The call on top throws: nothing catches it, the whole run rejects.
Throw(e) ==
  /\ stack' = <<>>
  /\ pc' = "failed"
  /\ error' = e
  /\ UNCHANGED <<result, rets>>

ReplaceTop(f) == stack' = SubSeq(stack, 1, Len(stack) - 1) \o <<f>>

Running == pc = "running" /\ stack # <<>>

\* Variant: the return of the closed check sits inside its `if (verbose)`.
FetchIssueReturnsWhenVerbose ==
  /\ Running
  /\ Top.at = "get"
  /\ TopItem # 0
  /\ \E issue \in Replies(Answers(TopItem)) :
       /\ log' = Append(log, Call("get", "fetch", Top, NoArgs, 200, issue))
       /\ out' = out + VerboseLines(verbose, 2)
       /\ IF IsClosed(issue) /\ verbose
          THEN Return(Top, ClosedResult)
          ELSE IF HasNoSubIssues(issue.sub_issues_summary)
          THEN Return(Top, LeafResult)
          ELSE /\ ReplaceTop([Top EXCEPT !.at = "list", !.issue = issue])
               /\ UNCHANGED <<rets, pc, result, error>>
       /\ seen' = [seen EXCEPT ![TopItem].first = issue,
                               ![TopItem].gets = @ + 1]
  /\ UNCHANGED <<config, others, issueState>>

\* Lines 171-211: the first fetch succeeds.
FetchIssue ==
  /\ Running
  /\ Top.at = "get"
  /\ TopItem # 0
  /\ \E issue \in Replies(Answers(TopItem)) :
       /\ log' = Append(log, Call("get", "fetch", Top, NoArgs, 200, issue))
       /\ out' = out + VerboseLines(verbose, 2)
       /\ IF IsClosed(issue)
          THEN Return(Top, ClosedResult)
          ELSE IF HasNoSubIssues(issue.sub_issues_summary)
          THEN Return(Top, LeafResult)
          ELSE /\ ReplaceTop([Top EXCEPT !.at = "list", !.issue = issue])
               /\ UNCHANGED <<rets, pc, result, error>>
       /\ seen' = [seen EXCEPT ![TopItem].first = issue,
                               ![TopItem].gets = @ + 1]
  /\ UNCHANGED <<config, others, issueState>>

\* Line 171 with getIssue's catch: the first fetch fails.
FetchIssueFails ==
  /\ Running
  /\ Top.at = "get"
  /\ \E s \in Outcomes("get", FailureStatuses) :
       /\ TopItem = 0 => s = 404
       /\ log' = Append(log, Call("get", "fetch", Top, NoArgs, s, NoIssue))
       /\ Throw(GetIssueError(s, Top.owner, Top.repo, Top.issue_number))
  /\ seen' = IF TopItem = 0 THEN seen
             ELSE [seen EXCEPT ![TopItem].gets = @ + 1]
  /\ UNCHANGED <<config, others, issueState, out>>

\* Lines 214-217: the sub-issues are listed (a 404 counts as none).
ListSubIssues ==
  /\ Running
  /\ Top.at = "list"
  /\ \E s \in Outcomes("listSubIssues",
                      {200} \cup { x \in FailureStatuses :
                                     GetSubIssuesAbsorbs(x) }) :
       /\ log' = Append(log,
            Call("listSubIssues", "list", Top,
                 [NoArgs EXCEPT !.per_page = PerPage], s, NoIssue))
       /\ ReplaceTop(
            [Top EXCEPT
               !.at = "loop",
               !.subIssues =
                  IF s = 200 THEN FirstPage(SubIssuesPage(tree, TopItem))
                  ELSE <<>>,
               !.totalProcessed = InitialProcessed,
               !.totalClosed = InitialClosed])
       /\ seen' = [seen EXCEPT ![TopItem].lists = @ + 1,
                               ![TopItem].listed = s]
  /\ UNCHANGED <<config, others, issueState, rets, out, pc, result, error>>

\* Line 214 with getSubIssues' catch: listing fails with another status.
ListSubIssuesFails ==
  /\ Running
  /\ Top.at = "list"
  /\ \E s \in Outcomes("listSubIssues",
                      { x \in FailureStatuses : ~GetSubIssuesAbsorbs(x) }) :
       /\ log' = Append(log,
            Call("listSubIssues", "list", Top,
                 [NoArgs EXCEPT !.per_page = PerPage], s, NoIssue))
       /\ Throw(StoreError("listSubIssues", s))
       /\ seen' = [seen EXCEPT ![TopItem].lists = @ + 1,
                               ![TopItem].listed = s]
  /\ UNCHANGED <<config, others, issueState, out>>

\* Variant: the loop takes the sub-issues from the end of the listing.
VisitSubIssueLastFirst ==
  /\ Running
  /\ Top.at = "loop"
  /\ Top.subIssues # <<>>
  /\ LET subIssue == Top.subIssues[Len(Top.subIssues)]
         subOwner == SubOwner(subIssue.repository_url)
         subRepo == SubRepo(subIssue.repository_url)
     IN stack' =
          SubSeq(stack, 1, Len(stack) - 1)
            \o <<[Top EXCEPT !.subIssues = SubSeq(@, 1, Len(@) - 1)],
                 Frame(subOwner, subRepo, subIssue.number, Top.depth + 1)>>
  /\ UNCHANGED <<config, others, issueState, log, rets, seen, out, pc, result,
                 error>>

\* Lines 219-232: the loop calls processIssueRecursively for the next
\* sub-issue.
VisitSubIssue ==
  /\ Running
  /\ Top.at = "loop"
  /\ Top.subIssues # <<>>
  /\ LET subIssue == Head(Top.subIssues)
         subOwner == SubOwner(subIssue.repository_url)
         subRepo == SubRepo(subIssue.repository_url)
     IN stack' =
          SubSeq(stack, 1, Len(stack) - 1)
            \o <<[Top EXCEPT !.subIssues = Tail(@)],
                 Frame(subOwner, subRepo, subIssue.number, Top.depth + 1)>>
  /\ UNCHANGED <<config, others, issueState, log, rets, seen, out, pc, result,
                 error>>

\* Lines 240-278: after the loop the issue is fetched again and the closure
\* is decided; a dry run counts and returns, a live run goes on to close.
RefetchIssue ==
  /\ Running
  /\ Top.at = "loop"
  /\ Top.subIssues = <<>>
  /\ TopItem # 0
  /\ \E updatedIssue \in Replies(Answers(TopItem)) :
       LET updatedSummary == UpdatedSummary(Top.issue, updatedIssue)
       IN /\ log' = Append(log,
               Call("get", "refetch", Top, NoArgs, 200, updatedIssue))
          /\ IF ShouldClose(updatedSummary)
             THEN IF IsDryRun(dryRun)
                  THEN /\ out' = out + 1
                       /\ Return(Top,
                            [processed |-> Top.totalProcessed,
                             closed |-> WouldCloseCount(Top.totalClosed)])
                  ELSE /\ out' = out + 1
                       /\ ReplaceTop([Top EXCEPT !.at = FirstCloseStep])
                       /\ UNCHANGED <<rets, pc, result, error>>
             ELSE /\ out' = out + VerboseLines(verbose, 1)
                  /\ Return(Top,
                       [processed |-> Top.totalProcessed,
                        closed |-> Top.totalClosed])
          /\ seen' = [seen EXCEPT ![TopItem].second = updatedIssue,
                                  ![TopItem].gets = @ + 1]
  /\ UNCHANGED <<config, others, issueState>>

\* Line 240 with getIssue's catch: the second fetch fails.
RefetchIssueFails ==
  /\ Running
  /\ Top.at = "loop"
  /\ Top.subIssues = <<>>
  /\ \E s \in Outcomes("get", FailureStatuses) :
       /\ log' = Append(log, Call("get", "refetch", Top, NoArgs, s, NoIssue))
       /\ Throw(GetIssueError(s, Top.owner, Top.repo, Top.issue_number))
  /\ seen' = IF TopItem = 0 THEN seen
             ELSE [seen EXCEPT ![TopItem].gets = @ + 1]
  /\ UNCHANGED <<config, others, issueState, out>>

\* Lines 132-138 (closeIssue, called at line 265): the issue is closed.
UpdateIssue ==
  /\ Running
  /\ Top.at = "update"
  /\ 200 \in Outcomes("update", {200})
  /\ log' = Append(log,
       Call("update", "close", Top,
            [NoArgs EXCEPT !.state = "closed", !.state_reason = "completed"],
            200, NoIssue))
  /\ issueState' = [issueState EXCEPT ![TopItem] = "closed"]
  /\ ReplaceTop([Top EXCEPT !.at = "comment"])
  /\ seen' = [seen EXCEPT ![TopItem].updates = @ + 1]
  /\ UNCHANGED <<config, others, rets, out, pc, result, error>>

UpdateIssueFails ==
  /\ Running
  /\ Top.at = "update"
  /\ \E s \in Outcomes("update", FailureStatuses) :
       /\ log' = Append(log,
            Call("update", "close", Top,
                 [NoArgs EXCEPT !.state = "closed",
                                !.state_reason = "completed"],
                 s, NoIssue))
       /\ Throw(StoreError("update", s))
  /\ seen' = [seen EXCEPT ![TopItem].updates = @ + 1]
  /\ UNCHANGED <<config, others, issueState, out>>

\* Lines 140-145 and 266-278: the comment is posted, the closure counted.
CreateComment ==
  /\ Running
  /\ Top.at = "comment"
  /\ 200 \in Outcomes("createComment", {200})
  /\ log' = Append(log,
       Call("createComment", "close", Top,
            [NoArgs EXCEPT !.body = CloseReason], 200, NoIssue))
  /\ Return(Top,
       [processed |-> Top.totalProcessed,
        closed |-> ClosedCount(Top.totalClosed)])
  /\ seen' = [seen EXCEPT ![TopItem].comments = @ + 1]
  /\ UNCHANGED <<config, others, issueState, out>>

CreateCommentFails ==
  /\ Running
  /\ Top.at = "comment"
  /\ \E s \in Outcomes("createComment", FailureStatuses) :
       /\ log' = Append(log,
            Call("createComment", "close", Top,
                 [NoArgs EXCEPT !.body = CloseReason], s, NoIssue))
       /\ Throw(StoreError("createComment", s))
  /\ seen' = [seen EXCEPT ![TopItem].comments = @ + 1]
  /\ UNCHANGED <<config, others, issueState, out>>

Next ==
  \/ FetchIssue
  \/ FetchIssueFails
  \/ ListSubIssues
  \/ ListSubIssuesFails
  \/ VisitSubIssue
  \/ RefetchIssue
  \/ RefetchIssueFails
  \/ UpdateIssue
  \/ UpdateIssueFails
  \/ CreateComment
  \/ CreateCommentFails

Spec == Init /\ [][Next]_vars

\* ------------------------------------------- a second run, same store
\* The issues the finished run counted as closed or as would-be-closed.
CountedClosed ==
  { i \in Items :
      /\ seen[i].second.state # ""
      /\ seen[i].second.sub_issues_summary.present
      /\ seen[i].second.sub_issues_summary.percent_completed = 100 }

\* The issues whose listing the store answered with 404.
Unlisted == { i \in Items : seen[i].listed = 404 }

\* index.js is started again on the same root once a run has returned: the
\* store keeps its state, the traversal starts afresh, the mode is chosen
\* anew.
Rerun ==
  /\ pc = "done"
  /\ earlier = <<>>
  /\ earlier' =
       <<[kind |-> "rerun", dryRun |-> dryRun, result |-> result,
          counted |-> CountedClosed,
          unlisted |-> Unlisted, requests |-> Len(log)]>>
  /\ dryRun' \in BOOLEAN
  /\ stack' = <<Frame(OwnerOf(1), RepoOf(1), NumberOf(1), 0)>>
  /\ log' = <<>>
  /\ rets' = <<>>
  /\ seen' = [i \in Items |-> Unseen]
  /\ out' = 0
  /\ pc' = "running"
  /\ result' = ClosedResult
  /\ error' = NoError
  /\ UNCHANGED <<tree, mode, verbose, issueState, issueInput, issueInfo,
                 cli, listing>>

InitRerun == Init /\ mode = "consistent"

NextRerun == Next \/ Rerun

SpecRerun == InitRerun /\ [][NextRerun]_vars

\* ------------------------------- the same run again, verbosity flipped
\* Once a run has ended, returned or failed, the same call is made again
\* with the other value of verbose; the store answers from the record of
\* the run that ended.
Replay ==
  /\ pc \in {"done", "failed"}
  /\ earlier = <<>>
  /\ earlier' =
       <<[kind |-> "replay", verbose |-> verbose, log |-> log, pc |-> pc,
          result |-> result, error |-> error, out |-> out]>>
  /\ verbose' = ~verbose
  /\ stack' = <<Frame(OwnerOf(1), RepoOf(1), NumberOf(1), 0)>>
  /\ log' = <<>>
  /\ rets' = <<>>
  /\ seen' = [i \in Items |-> Unseen]
  /\ out' = 0
  /\ pc' = "running"
  /\ result' = ClosedResult
  /\ error' = NoError
  /\ UNCHANGED <<tree, mode, dryRun, issueState, issueInput, issueInfo,
                 cli, listing>>

\* The first of the two runs is the quiet one, against a store whose
\* summaries follow from the states of the sub-issues.
InitReplay == Init /\ ~verbose /\ mode = "consistent"

NextReplay == Next \/ Replay

SpecReplay == InitReplay /\ [][NextReplay]_vars

\* -------------------------------------------- resolving a reference
\* index.js hands the reference it was given to parseIssueInput before any
\* traversal is started.
InitParse ==
  /\ tree = [i \in 2..MaxItems |-> 1]
  /\ mode = "consistent"
  /\ dryRun = TRUE
  /\ verbose = FALSE
  /\ issueState = [i \in Items |-> "open"]
  /\ stack = <<>>
  /\ log = <<>>
  /\ rets = <<>>
  /\ seen = [i \in Items |-> Unseen]
  /\ out = 0
  /\ pc = "start"
  /\ result = ClosedResult
  /\ error = NoError
  /\ earlier = <<>>
  /\ listing = NoListing
  /\ issueInput \in References(MaxLen)
  /\ issueInfo = Null
  /\ cli = NoCli

Parse ==
  /\ pc = "start"
  /\ issueInfo' = ParseIssueInput(issueInput)
  /\ pc' = "parsed"
  /\ UNCHANGED <<config, issueState, stack, log, rets, seen, out, result,
                 error, earlier, listing, issueInput, cli>>

NextParse == Parse

SpecParse == InitParse /\ [][NextParse]_vars

\* ---------------------------------- parseArgs and validation on their own
\* The two functions applied to an argument list and an environment, as the
\* unit tests apply them.
InitArgs ==
  /\ tree = [i \in 2..MaxItems |-> 1]
  /\ mode = "consistent"
  /\ dryRun = TRUE
  /\ verbose = FALSE
  /\ issueState = [i \in Items |-> "open"]
  /\ stack = <<>>
  /\ log = <<>>
  /\ rets = <<>>
  /\ seen = [i \in Items |-> Unseen]
  /\ out = 0
  /\ pc = "argv"
  /\ result = ClosedResult
  /\ error = NoError
  /\ earlier = <<>>
  /\ listing = NoListing
  /\ issueInput = <<>>
  /\ issueInfo = Null
  /\ \E args \in ArgLists(ArgWords, MaxArgs) :
       \E envToken \in {Undefined, "", "ghp_env"} :
         cli = [NoCli EXCEPT !.args = args, !.envToken = envToken]

ParseArgsCall ==
  /\ pc = "argv"
  /\ cli' = [cli EXCEPT !.cliArgs = ParseArgs(cli.args)]
  /\ pc' = "cliArgs"
  /\ UNCHANGED <<config, issueState, stack, log, rets, seen, out, result,
                 error, earlier, listing, issueInput, issueInfo>>

ValidateCall ==
  /\ pc = "cliArgs"
  /\ cli' = [cli EXCEPT
               !.missing = ValidateNonInteractiveMode(cli.cliArgs,
                                                      cli.envToken)]
  /\ pc' = "validated"
  /\ UNCHANGED <<config, issueState, stack, log, rets, seen, out, result,
                 error, earlier, listing, issueInput, issueInfo>>

NextArgs == ParseArgsCall \/ ValidateCall

SpecArgs == InitArgs /\ [][NextArgs]_vars

\* ------------------------------------------------------ index.js: main
\* Longest command line given to index.js.
MaxArgv == 6

\* The words of a command line: non-interactive mode, the two modes, the
\* issue option, and an issue reference.
MainWords == {"-y", "--live", "--dry-run", "-i", "owner/repo#1"}

HelpFlags == {"help", "--help", "-h"}

\* The argument as parseIssueInput reads it, symbol by symbol.
Spelling(w) ==
  IF w = "owner/repo#1" THEN <<"owner", "/", "repo", "#", "1">> ELSE <<w>>

\* The name a run of symbols spells (the names resolved here are one word).
Text(s) == IF Len(s) = 1 THEN s[1] ELSE ""

\* Variant: without a mode flag the non-interactive run is live.
NonInteractiveDefaultLive == "false"

\* `dryRun = true; // Default to dry-run in non-interactive mode`
NonInteractiveDefault == "true"

\* Variant: missing arguments are reported nowhere.
AnyMissingIgnored(missing) == FALSE

\* `if (missing.length > 0)`
AnyMissing(missing) == Len(missing) > 0

Stop(code, why) == [cli EXCEPT !.exitCode = code, !.stopped = why]

InitMain ==
  /\ tree = [i \in 2..MaxItems |-> IF i = 2 THEN 1 ELSE 2]
  /\ mode = "consistent"
  /\ dryRun = TRUE
  /\ verbose = FALSE
  /\ issueState = [i \in Items |-> IF i = 1 THEN "open" ELSE "closed"]
  /\ stack = <<>>
  /\ log = <<>>
  /\ rets = <<>>
  /\ seen = [i \in Items |-> Unseen]
  /\ out = 0
  /\ pc = "main"
  /\ result = ClosedResult
  /\ error = NoError
  /\ earlier = <<>>
  /\ listing = NoListing
  /\ issueInput = <<>>
  /\ issueInfo = Null
  /\ \E args \in ArgLists(MainWords, MaxArgv) :
       \E envToken \in {Undefined, "ghp_env"} :
         cli = [NoCli EXCEPT !.args = args, !.envToken = envToken]

\* Lines 19-27: the help flags, then parseArgs.
MainParseArgs ==
  /\ pc = "main"
  /\ IF \E k \in DOMAIN cli.args : cli.args[k] \in HelpFlags
     THEN /\ cli' = Stop(0, "help")
          /\ pc' = "exited"
     ELSE /\ cli' = [cli EXCEPT !.cliArgs = ParseArgs(cli.args)]
          /\ pc' = "validate"
  /\ UNCHANGED <<config, issueState, stack, log, rets, seen, out, result,
                 error, earlier, listing, issueInput, issueInfo>>

\* Lines 31-46: non-interactive mode needs a token and an issue.
MainValidate ==
  /\ pc = "validate"
  /\ IF cli.cliArgs.nonInteractive
     THEN LET missing ==
                ValidateNonInteractiveMode(cli.cliArgs, cli.envToken)
              defaulted ==
                [cli EXCEPT
                   !.missing = missing,
                   !.cliArgs.dryRun =
                      IF @ = "null" THEN NonInteractiveDefault ELSE @,
                   !.passed =
                      IF missing = <<>> THEN Append(@, "validated") ELSE @]
          IN IF AnyMissing(missing)
             THEN /\ cli' = [defaulted EXCEPT !.exitCode = 1,
                                              !.stopped = "missing"]
                  /\ pc' = "exited"
             ELSE /\ cli' = defaulted
                  /\ pc' = "token"
     ELSE /\ pc' = "token"
          /\ UNCHANGED cli
  /\ UNCHANGED <<config, issueState, stack, log, rets, seen, out, result,
                 error, earlier, listing, issueInput, issueInfo>>

\* Variant: getToken does not look at the environment.
MainGetTokenArgsOnly ==
  /\ pc = "token"
  /\ IF Truthy(cli.cliArgs.token)
     THEN /\ cli' = [cli EXCEPT !.token = cli.cliArgs.token]
          /\ pc' = "auth"
     ELSE \/ /\ cli' = [cli EXCEPT !.token = "ghp_typed",
                                   !.prompts = Append(@, "password")]
             /\ pc' = "auth"
          \/ /\ cli' = [Stop(0, "cancelled") EXCEPT
                          !.prompts = Append(@, "password")]
             /\ pc' = "exited"
  /\ UNCHANGED <<config, issueState, stack, log, rets, seen, out, result,
                 error, earlier, listing, issueInput, issueInfo>>

\* Line 50 with getToken: the token of the command line, else the one of
\* the environment, else the one typed at the password prompt (which may
\* be cancelled instead).
MainGetToken ==
  /\ pc = "token"
  /\ IF Truthy(cli.cliArgs.token)
     THEN /\ cli' = [cli EXCEPT !.token = cli.cliArgs.token]
          /\ pc' = "auth"
     ELSE IF Truthy(cli.envToken)
     THEN /\ cli' = [cli EXCEPT !.token = cli.envToken]
          /\ pc' = "auth"
     ELSE \/ /\ cli' = [cli EXCEPT !.token = "ghp_typed",
                                   !.prompts = Append(@, "password")]
             /\ pc' = "auth"
          \/ /\ cli' = [Stop(0, "cancelled") EXCEPT
                          !.prompts = Append(@, "password")]
             /\ pc' = "exited"
  /\ UNCHANGED <<config, issueState, stack, log, rets, seen, out, result,
                 error, earlier, listing, issueInput, issueInfo>>

\* Lines 54-56: users.getAuthenticated succeeds.
MainAuthenticate ==
  /\ pc = "auth"
  /\ cli' = [cli EXCEPT !.passed = Append(@, "authenticated")]
  /\ pc' = "issue"
  /\ UNCHANGED <<config, issueState, stack, log, rets, seen, out, result,
                 error, earlier, listing, issueInput, issueInfo>>

\* Lines 57-60: users.getAuthenticated fails.
MainAuthenticationFails ==
  /\ pc = "auth"
  /\ cli' = Stop(1, "authentication")
  /\ pc' = "exited"
  /\ UNCHANGED <<config, issueState, stack, log, rets, seen, out, result,
                 error, earlier, listing, issueInput, issueInfo>>

\* Lines 63-79: the issue of the command line, else the one typed at the
\* input prompt, which accepts what parseIssueInput resolves.
MainGetIssue ==
  /\ pc = "issue"
  /\ IF Truthy(cli.cliArgs.issue)
     THEN /\ issueInput' = Spelling(cli.cliArgs.issue)
          /\ pc' = "parse"
          /\ UNCHANGED cli
     ELSE IF cli.cliArgs.nonInteractive
     THEN /\ cli' = Stop(1, "issue required")
          /\ pc' = "exited"
          /\ UNCHANGED issueInput
     ELSE \/ /\ issueInput' = Spelling("owner/repo#1")
             /\ cli' = [cli EXCEPT !.prompts = Append(@, "input")]
             /\ pc' = "parse"
          \/ /\ cli' = [Stop(0, "cancelled") EXCEPT
                          !.prompts = Append(@, "input")]
             /\ pc' = "exited"
             /\ UNCHANGED issueInput
  /\ UNCHANGED <<config, issueState, stack, log, rets, seen, out, result,
                 error, earlier, listing, issueInfo>>

\* Lines 81-90: the reference is resolved, or the run ends.
MainParseIssue ==
  /\ pc = "parse"
  /\ issueInfo' = ParseIssueInput(issueInput)
  /\ IF issueInfo'.found
     THEN /\ cli' = [cli EXCEPT !.passed = Append(@, "parsed")]
          /\ pc' = "mode"
     ELSE /\ cli' = Stop(1, "format")
          /\ pc' = "exited"
  /\ UNCHANGED <<config, issueState, stack, log, rets, seen, out, result,
                 error, earlier, listing, issueInput>>

\* Lines 93-104: the mode of the command line, else dry run when
\* non-interactive, else what the user answers.
MainChooseMode ==
  /\ pc = "mode"
  /\ IF cli.cliArgs.dryRun # "null"
     THEN /\ dryRun' = (cli.cliArgs.dryRun = "true")
          /\ pc' = "confirm"
          /\ UNCHANGED cli
     ELSE IF cli.cliArgs.nonInteractive
     THEN /\ dryRun' = (NonInteractiveDefault = "true")
          /\ pc' = "confirm"
          /\ UNCHANGED cli
     ELSE \/ /\ dryRun' \in BOOLEAN
             /\ cli' = [cli EXCEPT !.prompts = Append(@, "confirm dry-run")]
             /\ pc' = "confirm"
          \/ /\ cli' = [Stop(0, "cancelled") EXCEPT
                          !.prompts = Append(@, "confirm dry-run")]
             /\ pc' = "exited"
             /\ UNCHANGED dryRun
  /\ UNCHANGED <<tree, mode, verbose, issueState, stack, log, rets, seen,
                 out, result, error, earlier, listing, issueInput, issueInfo>>

\* Variant: a live run is never put to the user.
MainConfirmLiveSkipped ==
  /\ pc = "confirm"
  /\ pc' = "process"
  /\ UNCHANGED <<config, issueState, stack, log, rets, seen, out, result,
                 error, earlier, listing, issueInput, issueInfo, cli>>

\* Lines 106-122: a live run is confirmed by the user unless non-interactive.
MainConfirmLive ==
  /\ pc = "confirm"
  /\ IF dryRun \/ cli.cliArgs.nonInteractive
     THEN /\ pc' = "process"
          /\ UNCHANGED cli
     ELSE \/ /\ cli' = [cli EXCEPT !.prompts = Append(@, "confirm live")]
             /\ pc' = "process"
          \/ /\ cli' = [Stop(0, "declined") EXCEPT
                          !.prompts = Append(@, "confirm live")]
             /\ pc' = "exited"
          \/ /\ cli' = [Stop(0, "cancelled") EXCEPT
                          !.prompts = Append(@, "confirm live")]
             /\ pc' = "exited"
  /\ UNCHANGED <<config, issueState, stack, log, rets, seen, out, result,
                 error, earlier, listing, issueInput, issueInfo>>

\* Lines 131-139: processIssueRecursively is called on the resolved issue.
MainProcess ==
  /\ pc = "process"
  /\ stack' = <<Frame(Text(issueInfo.owner), Text(issueInfo.repo),
                     issueInfo.issue_number, 0)>>
  /\ verbose' = cli.cliArgs.verbose
  /\ pc' = "running"
  /\ UNCHANGED <<tree, mode, dryRun, issueState, log, rets, seen, out,
                 result, error, earlier, listing, issueInput, issueInfo, cli>>

\* Lines 141-147: the traversal returned.
MainComplete ==
  /\ pc = "done"
  /\ cli' = Stop(0, "complete")
  /\ pc' = "exited"
  /\ UNCHANGED <<config, issueState, stack, log, rets, seen, out, result,
                 error, earlier, listing, issueInput, issueInfo>>

\* Lines 148-160: the traversal threw.
MainCatch ==
  /\ pc = "failed"
  /\ cli' = Stop(1, "error")
  /\ pc' = "exited"
  /\ UNCHANGED <<config, issueState, stack, log, rets, seen, out, result,
                 error, earlier, listing, issueInput, issueInfo>>

NextMain ==
  \/ MainParseArgs
  \/ MainValidate
  \/ MainGetToken
  \/ MainAuthenticate
  \/ MainAuthenticationFails
  \/ MainGetIssue
  \/ MainParseIssue
  \/ MainChooseMode
  \/ MainConfirmLive
  \/ MainProcess
  \/ MainComplete
  \/ MainCatch
  \/ Next

SpecMain == InitMain /\ [][NextMain]_vars

\* --------------------------------------------------- reading the history
Mutating == {"update", "createComment"}

WasFetched(i) == seen[i].first.state # ""

WasRefetched(i) == seen[i].second.state # ""

FetchedClosed(i) == seen[i].first.state = "closed"

FetchedOpen(i) == seen[i].first.state = "open"

Shows100(issue) ==
  /\ issue.sub_issues_summary.present
  /\ issue.sub_issues_summary.percent_completed = 100

ShowsBelow100(issue) ==
  /\ issue.sub_issues_summary.present
  /\ issue.sub_issues_summary.percent_completed < 100

Refetched100(i) == WasRefetched(i) /\ Shows100(seen[i].second)

RefetchedBelow100(i) == WasRefetched(i) /\ ShowsBelow100(seen[i].second)

\* The number of store requests made for issue i.
Requests(i) ==
  seen[i].gets + seen[i].lists + seen[i].updates + seen[i].comments

\* What a returned call added itself, beyond what its sub-issues returned.
OwnClosed(r) == r.closed - r.subClosed

OwnProcessed(r) == r.processed - r.subProcessed

RECURSIVE Sum(_, _)
Sum(f, S) ==
  IF S = {} THEN 0
  ELSE LET x == CHOOSE y \in S : TRUE IN f[x] + Sum(f, S \ {x})

Done == pc = "done"

\* ----------------------------------------------------------------- C1
\* C1: in a dry run no issues.update and no issues.createComment request
\* is ever made, at any depth; eligible issues are only counted.
C1_DryRunNeverMutates ==
  dryRun =>
    /\ \A i \in Items : seen[i].updates = 0 /\ seen[i].comments = 0
    /\ Len(log) > 0 => log[Len(log)].op \notin Mutating
    /\ mode = "scripted" => \A i \in Items : issueState[i] = "open"

\* A finished dry run that counted an eligible issue below the root too.
C1_Witness ==
  /\ dryRun
  /\ Done
  /\ result.closed >= 2
  /\ \E i \in 2..MaxItems : Refetched100(i)

\* ----------------------------------------------------------------- C2
\* C2: a call whose re-fetch shows percent_completed = 100 adds exactly 1
\* to the closed count it returns, in a dry run and in a live run.
C2_FullRefetchCountsOnce ==
  \A k \in DOMAIN rets :
    Refetched100(rets[k].item) => OwnClosed(rets[k]) = 1

\* A live run returned from a call below the root whose re-fetch showed 100%.
C2_Witness ==
  /\ ~dryRun
  /\ \E k \in DOMAIN rets : rets[k].depth > 0 /\ Refetched100(rets[k].item)

\* ----------------------------------------------------------------- C3
\* C3: in a live run update and createComment are requested at most once
\* per issue and only for an issue whose re-fetch shows 100%, never for an
\* issue fetched as closed; when the run has returned, each was requested
\* exactly once for every such issue and the closed count equals the number
\* of update requests.
C3_LiveClosesExactlyTheComplete ==
  ~dryRun =>
    /\ \A i \in Items :
         /\ seen[i].updates <= 1
         /\ seen[i].comments <= seen[i].updates
         /\ seen[i].updates > 0 => Refetched100(i)
         /\ FetchedClosed(i) => seen[i].updates = 0 /\ seen[i].comments = 0
    /\ Done =>
         /\ \A i \in Items :
              /\ seen[i].updates = IF Refetched100(i) THEN 1 ELSE 0
              /\ seen[i].comments = IF Refetched100(i) THEN 1 ELSE 0
         /\ result.closed = Sum([i \in Items |-> seen[i].updates], Items)

\* A finished live run that closed the root over an already closed child.
C3_Witness ==
  /\ ~dryRun
  /\ Done
  /\ Refetched100(1)
  /\ \E i \in ChildSet(tree, 1) : FetchedClosed(i)

\* ----------------------------------------------------------------- C4
\* C4: an issue whose re-fetch shows percent_completed < 100 is not closed:
\* no update and no createComment is requested for it and its call adds 0
\* to closed, the closures of its descendants still being counted.
C4_PartialRefetchNeverCloses ==
  /\ \A i \in Items :
       RefetchedBelow100(i) => seen[i].updates = 0 /\ seen[i].comments = 0
  /\ \A k \in DOMAIN rets :
       RefetchedBelow100(rets[k].item) =>
         /\ OwnClosed(rets[k]) = 0
         /\ rets[k].closed = rets[k].subClosed

\* The root stayed open at less than 100% while a descendant was counted.
C4_Witness ==
  /\ Done
  /\ RefetchedBelow100(1)
  /\ result.closed >= 1

\* ----------------------------------------------------------------- C5
ReportsNoSubIssues(issue) ==
  \/ ~issue.sub_issues_summary.present
  \/ issue.sub_issues_summary.total = 0

NoMutation == \A i \in Items : seen[i].updates = 0 /\ seen[i].comments = 0

\* The root has three children and its first fetch shows it open, 2 of 3.
RootReads2of3 ==
  /\ Cardinality(ChildSet(tree, 1)) = 3
  /\ FetchedOpen(1)
  /\ seen[1].first.sub_issues_summary = Summary(3, 2)

\* C5 as stated: for an open root reading 2 of 3 complete with three
\* children, the run makes no mutating request and returns closed = 0,
\* whatever the three children are.
C5_Original ==
  RootReads2of3 => NoMutation /\ (Done => result.closed = 0)

\* C5 as amended: for an open root whose first fetch and re-fetch both show
\* 2 of 3 complete and whose three children are each fetched as closed or as
\* having no sub-issues, the run makes no mutating request and returns
\* closed = 0, whatever the open or closed states of the three children.
C5_PartialRootOverLeaves ==
  ( /\ RootReads2of3
    /\ \A j \in ChildSet(tree, 1) :
         WasFetched(j) =>
           FetchedClosed(j) \/ ReportsNoSubIssues(seen[j].first)
    /\ WasRefetched(1) => seen[1].second.sub_issues_summary = Summary(3, 2) )
  => NoMutation /\ (Done => result.closed = 0)

\* The run over the 2-of-3 root returned, with open and closed children.
C5_Witness ==
  /\ Done
  /\ RootReads2of3
  /\ WasRefetched(1)
  /\ seen[1].second.sub_issues_summary = Summary(3, 2)
  /\ \E j \in ChildSet(tree, 1) : FetchedOpen(j)
  /\ \E j \in ChildSet(tree, 1) : FetchedClosed(j)

\* ----------------------------------------------------------------- C6
\* C6: the closure decision follows the re-fetch alone.  An issue whose
\* first fetch shows 100% but whose re-fetch shows less, or no summary, is
\* not closed and adds 0 to closed; an issue whose first fetch shows less
\* than 100% (total > 0) but whose re-fetch shows 100% adds 1 to closed and,
\* in a live run, is closed.
C6_DecisionFromSecondRead ==
  /\ \A i \in Items :
       (WasRefetched(i) /\ Shows100(seen[i].first)
          /\ ~Shows100(seen[i].second))
       => seen[i].updates = 0 /\ seen[i].comments = 0
  /\ \A k \in DOMAIN rets :
       LET i == rets[k].item IN
       WasRefetched(i) =>
         /\ (Shows100(seen[i].first) /\ ~Shows100(seen[i].second))
              => OwnClosed(rets[k]) = 0
         /\ (ShowsBelow100(seen[i].first)
               /\ seen[i].first.sub_issues_summary.total > 0
               /\ Shows100(seen[i].second))
              => /\ OwnClosed(rets[k]) = 1
                 /\ ~dryRun => seen[i].updates = 1 /\ seen[i].comments = 1

\* A finished live run in which one issue went from 100% to no summary and
\* another from less than 100% to 100% between its two reads.
C6_Witness ==
  /\ Done
  /\ ~dryRun
  /\ \E i \in Items :
       /\ WasRefetched(i)
       /\ Shows100(seen[i].first)
       /\ ~seen[i].second.sub_issues_summary.present
  /\ \E j \in Items :
       /\ ShowsBelow100(seen[j].first)
       /\ Refetched100(j)

\* ----------------------------------------------------------------- C7
\* C7: a call whose fetch shows the issue closed returns {processed: 0,
\* closed: 0} after that one issues.get: no further request is made for the
\* issue and none for any of its descendants; a run whose root is fetched as
\* closed returns {0, 0} after a single request and mutates nothing.
C7_ClosedIsSkipped ==
  /\ \A i \in Items :
       FetchedClosed(i) =>
         /\ seen[i].gets = 1
         /\ Requests(i) = 1
         /\ \E k \in DOMAIN rets : rets[k].item = i
  /\ \A j \in 2..MaxItems :
       (FetchedClosed(tree[j]) \/ Requests(tree[j]) = 0) => Requests(j) = 0
  /\ \A k \in DOMAIN rets :
       FetchedClosed(rets[k].item) =>
         rets[k].processed = 0 /\ rets[k].closed = 0
  /\ FetchedClosed(1) =>
       /\ Done
       /\ result = [processed |-> 0, closed |-> 0]
       /\ Len(log) = 1
       /\ NoMutation

\* A finished run skipped a closed issue that has sub-issues of its own.
C7_Witness ==
  /\ Done
  /\ \E j \in 2..MaxItems : FetchedClosed(j) /\ ChildSet(tree, j) # {}

\* ----------------------------------------------------------------- C8
\* C8: a call whose first fetch shows the issue open with no summary, or
\* with a summary of total 0, returns {processed: 1, closed: 0}; that fetch
\* is the only request made for the issue (no listing, no re-fetch, no
\* update, no comment).
C8_LeafRule ==
  /\ \A i \in Items :
       (FetchedOpen(i) /\ ReportsNoSubIssues(seen[i].first)) =>
         /\ seen[i].gets = 1
         /\ seen[i].lists = 0
         /\ seen[i].updates = 0
         /\ seen[i].comments = 0
         /\ \E k \in DOMAIN rets : rets[k].item = i
  /\ \A k \in DOMAIN rets :
       LET i == rets[k].item IN
       (FetchedOpen(i) /\ ReportsNoSubIssues(seen[i].first)) =>
         rets[k].processed = 1 /\ rets[k].closed = 0

\* A finished run met an open issue without summary and one with total 0.
C8_Witness ==
  /\ Done
  /\ \E i \in Items :
       FetchedOpen(i) /\ ~seen[i].first.sub_issues_summary.present
  /\ \E j \in Items :
       /\ FetchedOpen(j)
       /\ seen[j].first.sub_issues_summary.present
       /\ seen[j].first.sub_issues_summary.total = 0

C10_ClosedChildrenAreProcessed ==
  ( /\ Done
    /\ FetchedOpen(1)
    /\ Shows100(seen[1].first)
    /\ Refetched100(1)
    /\ ChildSet(tree, 1) # {}
    /\ \A j \in ChildSet(tree, 1) : FetchedClosed(j) )
  => /\ result.processed = Cardinality(ChildSet(tree, 1)) + 1
     /\ result.closed = 1

\* ---------------------------------------------------------------- C11
\* C11: against a store that derives the summaries from the children's
\* states, a live run started from the state a dry run started from closes
\* exactly the issues the dry run counted as would-be-closed, so the two
\* closed counts agree (every listing being answered).
C11_DryRunPreviewsLive ==
  ( /\ earlier # <<>>
    /\ earlier[1].dryRun
    /\ ~dryRun
    /\ Done
    /\ earlier[1].unlisted = {}
    /\ Unlisted = {} )
  => /\ earlier[1].counted = CountedClosed
     /\ earlier[1].result.closed = result.closed

\* ---------------------------------------------------------------- C12
\* C12: every call, and every store request it makes, addresses its issue
\* in the owner and repository named by that issue's own repository_url:
\* a child is never fetched in its parent's repository, and the parent's
\* re-fetch, update and comment stay in the parent's own.
C12_EachIssueInItsOwnRepository ==
  /\ \A k \in DOMAIN stack :
       /\ stack[k].owner = OwnerOf(stack[k].issue_number)
       /\ stack[k].repo = RepoOf(stack[k].issue_number)
  /\ Len(log) > 0 =>
       /\ log[Len(log)].owner = OwnerOf(log[Len(log)].issue_number)
       /\ log[Len(log)].repo = RepoOf(log[Len(log)].issue_number)

\* A finished live run fetched a child living in another repository than
\* the root and then closed the root.
C12_Witness ==
  /\ Done
  /\ ~dryRun
  /\ \E j \in ChildSet(tree, 1) :
       /\ OwnerOf(j) # OwnerOf(1)
       /\ RepoOf(j) # RepoOf(1)
       /\ seen[j].gets > 0
  /\ seen[1].gets = 2
  /\ seen[1].updates = 1
  /\ seen[1].comments = 1

\* ---------------------------------------------------------------- C13
\* The calls of processIssueRecursively that returned for issue i.
Visits(i) == Cardinality({ k \in DOMAIN rets : rets[k].item = i })

Expanded(i) ==
  /\ Visits(i) = 1
  /\ seen[i].first.state = "open"
  /\ seen[i].first.sub_issues_summary.present
  /\ seen[i].first.sub_issues_summary.total > 0
  /\ seen[i].listed = 200

Last == log[Len(log)]

LastItem == ItemAt(Last.owner, Last.repo, Last.issue_number)

LastIs(ops) == Len(log) > 0 /\ Last.op \in ops

\* A request the run does not survive: any answer but 200, except the 404
\* of a listing.
Fatal(c) == c.status # 200 /\ ~(c.op = "listSubIssues" /\ c.status = 404)

Failed == pc = "failed"

\* C14: when issues.get answers 404, the run fails with getIssue's own
\* error, which names the issue number, the owner and the repository of the
\* request; the fetch is not tried again (it stays the last request, the
\* first or the second for its issue).
C14_NotFoundNamesTheIssue ==
  (LastIs({"get"}) /\ Last.status = 404) =>
    /\ Failed
    /\ error.thrownBy = "getIssue"
    /\ error.status = 0
    /\ error.issue_number = Last.issue_number
    /\ error.owner = Last.owner
    /\ error.repo = Last.repo
    /\ seen[LastItem].gets = IF Last.site = "fetch" THEN 1 ELSE 2

\* A sub-issue in another repository was not found.
C14_Witness ==
  /\ Failed
  /\ LastIs({"get"})
  /\ Last.status = 404
  /\ Last.depth > 0
  /\ Last.owner # OwnerOf(1)
  /\ error.owner = "other-owner"

\* C15: when issues.get or listSubIssues fails with a status other than
\* 404, the run fails with the store's own error: its status, thrown by that
\* request, nothing added.
C15_OtherErrorsRethrown ==
  (LastIs({"get", "listSubIssues"}) /\ Last.status \notin {200, 404}) =>
    /\ Failed
    /\ error.status = Last.status
    /\ error.thrownBy = Last.op
    /\ error.issue_number = 0
    /\ error.owner = ""
    /\ error.repo = ""

\* A listing below the root failed with a 500.
C15_Witness ==
  /\ Failed
  /\ LastIs({"listSubIssues"})
  /\ Last.status = 500
  /\ Last.depth > 0
  /\ error.status = 500

\* C16: a failing issues.get (fetch or re-fetch, at any depth) and a
\* listSubIssues failing with another status than 404 reject the top-level
\* call: no call is left running, no result is returned at depth 0, and the
\* failing request is the last one of the run (no request follows a fatal
\* one).
C16_FailureEndsTheRun ==
  /\ (LastIs({"get", "listSubIssues"}) /\ Fatal(Last)) =>
       /\ Failed
       /\ stack = <<>>
       /\ error # NoError
       /\ \A k \in DOMAIN rets : rets[k].depth # 0
  /\ Len(log) > 1 => ~Fatal(log[Len(log) - 1])

\* A re-fetch below the root failed while a sibling was still to visit.
C16_Witness ==
  /\ Failed
  /\ LastIs({"get"})
  /\ Last.site = "refetch"
  /\ Last.depth > 0
  /\ \E j \in 2..MaxItems :
       /\ tree[j] = tree[LastItem]
       /\ j # LastItem
       /\ seen[tree[j]].listed = 200
       /\ Requests(j) = 0

\* C17: nothing reopens an issue, in a run that aborts as in any other:
\* an issue that is closed stays closed.  When createComment fails after
\* the update succeeded, the issue is closed, has had its one update and
\* its one comment request, and no call has returned a result for it (the
\* run has failed, so no result counts it).
C17_NoRollback ==
  [][ /\ \A i \in Items :
           issueState[i] = "closed" => issueState'[i] = "closed"
      /\ (Len(log') > 0 /\ log'[Len(log')].op = "createComment"
            /\ log'[Len(log')].status # 200) =>
           /\ pc' = "failed"
           /\ issueState'[TopItem] = "closed"
           /\ seen'[TopItem].updates = 1
           /\ seen'[TopItem].comments = 1
           /\ \A k \in DOMAIN rets' : rets'[k].item # TopItem
           /\ \A k \in DOMAIN rets' : rets'[k].depth # 0 ]_vars

\* The comment on the root failed after a sub-issue had been closed and
\* commented: both are closed, the run has failed.
C17_Witness ==
  /\ Failed
  /\ LastIs({"createComment"})
  /\ Last.status = 500
  /\ LastItem = 1
  /\ issueState[1] = "closed"
  /\ mode = "scripted"
  /\ \E j \in 2..MaxItems :
       /\ seen[j].updates = 1
       /\ seen[j].comments = 1
       /\ issueState[j] = "closed"

\* C18: a listing answered with 404 is an empty list.  The call goes on
\* with no sub-issue to visit, so no request is made for any child; the
\* issue is still fetched again, and the call returns processed = 1 with
\* closed = 1 exactly when the re-fetch shows 100%.
C18_ListingNotFoundIsEmpty ==
  /\ (LastIs({"listSubIssues"}) /\ Last.status = 404) =>
       /\ pc = "running"
       /\ error = NoError
       /\ Len(stack) = Last.depth + 1
       /\ Top.issue_number = Last.issue_number
       /\ Top.subIssues = <<>>
  /\ \A i \in Items :
       seen[i].listed = 404 =>
         /\ seen[i].lists = 1
         /\ \A j \in ChildSet(tree, i) : Requests(j) = 0
  /\ \A k \in DOMAIN rets :
       LET i == rets[k].item IN
       seen[i].listed = 404 =>
         /\ WasRefetched(i)
         /\ rets[k].processed = 1
         /\ rets[k].closed = IF Shows100(seen[i].second) THEN 1 ELSE 0

\* A live run closed an issue whose listing was a 404 and which has
\* sub-issues in the store; another run returned one without closing it.
C18_Witness ==
  /\ Done
  /\ \E i \in Items :
       /\ seen[i].listed = 404
       /\ ChildSet(tree, i) # {}
       /\ WasRefetched(i)
       /\ \/ Shows100(seen[i].second) /\ seen[i].comments = 1
          \/ ~Shows100(seen[i].second) /\ seen[i].updates = 0 /\ i # 1

\* ---------------------------------------------------------------- C19
Replaying == earlier # <<>> /\ earlier[1].kind = "replay"

\* C19: a run answered as an earlier run was answered, and differing from
\* it in verbose only, makes the requests the earlier run made, one for one
\* and with the same arguments, and ends as it ended: the same {processed,
\* closed} when it returned, the same error when it failed.
C19_VerboseChangesNoBehaviour ==
  Replaying =>
    /\ verbose # earlier[1].verbose
    /\ Len(log) <= Len(earlier[1].log)
    /\ Len(log) > 0 => log[Len(log)] = earlier[1].log[Len(log)]
    /\ pc # "running" =>
         /\ Len(log) = Len(earlier[1].log)
         /\ pc = earlier[1].pc
         /\ result = earlier[1].result
         /\ error = earlier[1].error

\* Both runs closed the root and one more issue, and wrote differently.
C19_Witness ==
  /\ Replaying
  /\ Done
  /\ ~dryRun
  /\ result.closed = 2
  /\ seen[1].comments = 1
  /\ out # earlier[1].out

\* ---------------------------------------------------------------- C20
Parsed == pc = "parsed"

\* s reads <ns>/<name>#<digits> with the '/' at position i and the '#' at
\* position j: ns, name and digits are not empty, digits are all digits.
HasForm(s, i, j) ==
  /\ 1 < i
  /\ i + 1 < j
  /\ j < Len(s)
  /\ s[i] = "/"
  /\ s[j] = "#"
  /\ \A k \in (j + 1)..Len(s) : IsDigit(s[k])

RECURSIVE Pow10(_)
Pow10(n) == IF n = 0 THEN 1 ELSE 10 * Pow10(n - 1)

\* The integer a string of decimal digits denotes.
Decimal(ds) ==
  Sum([k \in DOMAIN ds |-> DigitValue(ds[k]) * Pow10(Len(ds) - k)],
      DOMAIN ds)

Reference(s, i, j) ==
  [found |-> TRUE, owner |-> SubSeq(s, 1, i - 1),
   repo |-> SubSeq(s, i + 1, j - 1),
   issue_number |-> Decimal(SubSeq(s, j + 1, Len(s)))]

Contains(s, c) == \E k \in DOMAIN s : s[k] = c

\* C20 as stated: for every reading of the input as <ns>/<name>#<digits>,
\* parseIssueInput returns owner ns, repo name and the integer the digits
\* denote.
C20_Original ==
  Parsed =>
    \A i \in DOMAIN issueInput : \A j \in DOMAIN issueInput :
      HasForm(issueInput, i, j) => issueInfo = Reference(issueInput, i, j)

\* C20 as amended: for every reading of the input as <ns>/<name>#<digits>
\* in which ns contains no '/' and name contains no '#', parseIssueInput
\* returns owner ns, repo name and, as an integer, the number the digits
\* denote (0 for the digits 0).
C20_CompactFormResolved ==
  Parsed =>
    /\ issueInfo.issue_number \in Nat
    /\ \A i \in DOMAIN issueInput : \A j \in DOMAIN issueInput :
         ( /\ HasForm(issueInput, i, j)
           /\ ~Contains(SubSeq(issueInput, 1, i - 1), "/")
           /\ ~Contains(SubSeq(issueInput, i + 1, j - 1), "#") )
         => issueInfo = Reference(issueInput, i, j)

\* a/a#0 was resolved, with issue number 0.
C20_Witness ==
  /\ Parsed
  /\ issueInput = <<"a", "/", "a", "#", "0">>
  /\ issueInfo.found
  /\ issueInfo.issue_number = 0

\* ------------------------------------------------------- C21 - C24
\* s reads as the compact pattern: a non-empty owner without '/', a '/', a
\* non-empty repo without '#', a '#', and digits up to the end.
ReadsCompact(s, i, j) ==
  /\ HasForm(s, i, j)
  /\ ~Contains(SubSeq(s, 1, i - 1), "/")
  /\ ~Contains(SubSeq(s, i + 1, j - 1), "#")

MatchesCompact(s) ==
  \E i \in { x \in DOMAIN s : s[x] = "/" } :
    \E j \in { x \in DOMAIN s : s[x] = "#" } : ReadsCompact(s, i, j)

\* s reads as the URL pattern from position k: github.com, a '/', a
\* non-empty segment up to the '/' at a, a non-empty segment up to the '/'
\* at b, issues, a '/', and a digit.
ReadsUrl(s, k, a, b) ==
  /\ k + 2 < a
  /\ a + 1 < b
  /\ b + 3 <= Len(s)
  /\ s[k] = "github.com"
  /\ s[k + 1] = "/"
  /\ ~Contains(SubSeq(s, k + 2, a - 1), "/")
  /\ s[a] = "/"
  /\ ~Contains(SubSeq(s, a + 1, b - 1), "/")
  /\ s[b] = "/"
  /\ s[b + 1] = "issues"
  /\ s[b + 2] = "/"
  /\ IsDigit(s[b + 3])

MatchesUrl(s) ==
  \E k \in { x \in DOMAIN s : s[x] = "github.com" } :
    \E a \in { x \in DOMAIN s : s[x] = "/" } :
      \E b \in { x \in DOMAIN s : s[x] = "/" } : ReadsUrl(s, k, a, b)

\* C21: a string that reads neither as the compact pattern nor as the URL
\* pattern anywhere is resolved to null, and no error is raised.
C21_NeitherPatternIsNull ==
  (Parsed /\ ~MatchesCompact(issueInput) /\ ~MatchesUrl(issueInput))
    => issueInfo = Null /\ error = NoError

\* An issue URL on another host was resolved to null.
C21_Witness ==
  /\ Parsed
  /\ issueInput =
       <<"https:", "/", "/", "gitlab.com", "/", "a", "/", "a", "/", "issues",
         "/", "1">>
  /\ issueInfo = Null

\* ---------------------------------------------------------------- C22
\* s begins with the bare host and reads as the URL pattern from there.
BareUrl(s) ==
  \E a \in { x \in DOMAIN s : s[x] = "/" } :
    \E b \in { x \in DOMAIN s : s[x] = "/" } : ReadsUrl(s, 1, a, b)

Https(s) == <<"https:", "/", "/">> \o s

Http(s) == <<"http:", "/", "/">> \o s

\* C22: an input that reads as the URL pattern from the bare host on is
\* resolved to the same owner, repo and issue number when https:// or
\* http:// is put in front of it.
C22_SchemeMakesNoDifference ==
  (Parsed /\ BareUrl(issueInput)) =>
    /\ ParseIssueInput(Https(issueInput)) = issueInfo
    /\ ParseIssueInput(Http(issueInput)) = issueInfo

\* ---------------------------------------------------------------- C23
\* What the compact pattern makes of s: owner up to the '/', repo up to the
\* '#', the digits behind it.
CompactReading(s) ==
  LET p == CHOOSE p \in (DOMAIN s) \X (DOMAIN s) : ReadsCompact(s, p[1], p[2])
  IN Reference(s, p[1], p[2])

\* The last position of the run of digits that starts at position p.
DigitsUpTo(s, p) ==
  CHOOSE e \in p..Len(s) :
    /\ \A x \in p..e : IsDigit(s[x])
    /\ e < Len(s) => ~IsDigit(s[e + 1])

\* What the URL pattern makes of s: the two segments behind the first
\* github.com from which the pattern reads, and the digits behind issues/.
UrlReading(s) ==
  LET reads == { p \in (DOMAIN s) \X (DOMAIN s) \X (DOMAIN s) :
                   ReadsUrl(s, p[1], p[2], p[3]) }
      p == CHOOSE q \in reads : \A r \in reads : q[1] <= r[1]
  IN [found |-> TRUE,
      owner |-> SubSeq(s, p[1] + 2, p[2] - 1),
      repo |-> SubSeq(s, p[2] + 1, p[3] - 1),
      issue_number |->
        Decimal(SubSeq(s, p[3] + 3, DigitsUpTo(s, p[3] + 3)))]

\* C23: an input that reads as the compact pattern is resolved by it,
\* whether or not it reads as the URL pattern too; the URL pattern resolves
\* only inputs that do not read as the compact pattern.
C23_CompactFormFirst ==
  Parsed =>
    /\ MatchesCompact(issueInput) => issueInfo = CompactReading(issueInput)
    /\ (~MatchesCompact(issueInput) /\ MatchesUrl(issueInput))
         => issueInfo = UrlReading(issueInput)

\* An input that reads both ways was resolved by the compact pattern, to
\* something else than the URL pattern makes of it.
C23_Witness ==
  /\ Parsed
  /\ MatchesCompact(issueInput)
  /\ MatchesUrl(issueInput)
  /\ issueInfo = CompactReading(issueInput)
  /\ issueInfo # UrlReading(issueInput)

\* ---------------------------------------------------------------- C24
\* The input is the returned owner, a '/', the returned repo, a '#' and
\* digits up to the end: the reference was resolved from the compact form.
FromCompact ==
  /\ issueInfo.found
  /\ HasForm(issueInput, Len(issueInfo.owner) + 1,
             Len(issueInfo.owner) + Len(issueInfo.repo) + 2)
  /\ issueInfo.owner = SubSeq(issueInput, 1, Len(issueInfo.owner))
  /\ issueInfo.repo =
       SubSeq(issueInput, Len(issueInfo.owner) + 2,
              Len(issueInfo.owner) + Len(issueInfo.repo) + 1)

FirstAt(s, c) == CHOOSE k \in DOMAIN s : s[k] = c /\ \A l \in 1..(k - 1) : s[l] # c

\* C24: in a reference resolved from the compact form the owner contains
\* no '/' and the repo no '#': the owner ends at the first '/' of the input
\* and the repo is everything from there to the only '#' behind it.
C24_CompactOwnerAndRepo ==
  (Parsed /\ FromCompact) =>
    /\ ~Contains(issueInfo.owner, "/")
    /\ ~Contains(issueInfo.repo, "#")
    /\ Len(issueInfo.owner) + 1 = FirstAt(issueInput, "/")
    /\ \A k \in DOMAIN issueInput :
         (k > FirstAt(issueInput, "/") /\ issueInput[k] = "#")
           => k = Len(issueInfo.owner) + Len(issueInfo.repo) + 2

\* A compact reference was resolved to a repo that contains a '/'.
C24_Witness ==
  /\ Parsed
  /\ FromCompact
  /\ Contains(issueInfo.repo, "/")
  /\ issueInfo.owner = <<"a">>

\* ---------------------------------------------------------------- C25
DryFlags == {"--dry-run", "-d"}

LiveFlags == {"--live", "-l"}

IssueFlags == {"--issue", "-i"}

TokenFlags == {"--token", "-t"}

VerboseFlags == {"--verbose", "-v"}

YesFlags == {"-y", "--yes"}

KnownFlags ==
  DryFlags \cup LiveFlags \cup IssueFlags \cup TokenFlags \cup VerboseFlags
    \cup YesFlags

ArgsParsed == pc \in {"cliArgs", "validated"}

Largest(S) == CHOOSE k \in S : \A l \in S : l <= k

\* What the last of the mode flags at the positions S of args asks for.
ModeAsked(args, S) ==
  LET ms == { k \in S : args[k] \in DryFlags \cup LiveFlags }
  IN IF ms = {} THEN "null"
     ELSE IF args[Largest(ms)] \in DryFlags THEN "true" ELSE "false"

\* C25 as stated: the last --dry-run/-d or --live/-l of the argument list
\* decides dryRun, null with none of them, and the arguments that are no
\* option may be left out without changing any field.
C25_Original ==
  ArgsParsed =>
    /\ cli.cliArgs.dryRun = ModeAsked(cli.args, DOMAIN cli.args)
    /\ cli.cliArgs =
         ParseArgs(SelectSeq(cli.args, LAMBDA w : w \in KnownFlags))

\* The argument at position k is the value of an --issue/-i or --token/-t
\* in front of it, not an option of its own.
RECURSIVE IsValue(_, _)
IsValue(args, k) ==
  /\ k > 1
  /\ args[k - 1] \in IssueFlags \cup TokenFlags
  /\ ~IsValue(args, k - 1)

Options(args) == { k \in DOMAIN args : ~IsValue(args, k) }

\* The value given to the last of the options F of args: the argument
\* behind it, undefined when there is none, null when F does not occur.
LastValue(args, F) ==
  LET fs == { k \in Options(args) : args[k] \in F }
  IN IF fs = {} THEN NullValue
     ELSE IF Largest(fs) = Len(args) THEN Undefined
     ELSE args[Largest(fs) + 1]

\* C25 as amended: the argument behind an --issue/-i or --token/-t is that
\* option's value, whatever it reads.  Of the other arguments the last
\* --dry-run/-d or --live/-l decides dryRun, null with none of them; -v and
\* -y set their fields; the last --issue and --token give theirs; and the
\* arguments that are neither an option nor a value change no field.
C25_LastModeOptionDecides ==
  ArgsParsed =>
    /\ cli.cliArgs.dryRun = ModeAsked(cli.args, Options(cli.args))
    /\ cli.cliArgs.issue = LastValue(cli.args, IssueFlags)
    /\ cli.cliArgs.token = LastValue(cli.args, TokenFlags)
    /\ cli.cliArgs.verbose
         = (\E k \in Options(cli.args) : cli.args[k] \in VerboseFlags)
    /\ cli.cliArgs.nonInteractive
         = (\E k \in Options(cli.args) : cli.args[k] \in YesFlags)

\* --live, then --dry-run as the value of -i: dryRun is false.
C25_Witness ==
  /\ ArgsParsed
  /\ cli.args = <<"--live", "-i", "--dry-run">>
  /\ cli.cliArgs.dryRun = "false"
  /\ cli.cliArgs.issue = "--dry-run"

\* ---------------------------------------------------------------- C26
Validated == pc = "validated"

\* A value that has been given: a non-empty string.
IsSet(v) == v # NullValue /\ v # Undefined /\ v # ""

InList(x, l) == \E k \in DOMAIN l : l[k] = x

\* C26: the list returned by validateNonInteractiveMode holds the token
\* entry exactly when neither cliArgs.token nor GITHUB_TOKEN is set and the
\* issue entry exactly when cliArgs.issue is not set, the token entry first
\* and nothing else; so it is empty exactly when a token and an issue are
\* available, whatever dryRun, verbose and nonInteractive are.
C26_MissingListsWhatIsMissing ==
  Validated =>
    LET needsToken == ~IsSet(cli.cliArgs.token) /\ ~IsSet(cli.envToken)
        needsIssue == ~IsSet(cli.cliArgs.issue)
    IN /\ InList(MissingToken, cli.missing) = needsToken
       /\ InList(MissingIssue, cli.missing) = needsIssue
       /\ Len(cli.missing) = (IF needsToken THEN 1 ELSE 0)
                               + (IF needsIssue THEN 1 ELSE 0)
       /\ (needsToken /\ needsIssue) => cli.missing[1] = MissingToken
       /\ (cli.missing = <<>>) = (~needsToken /\ ~needsIssue)

\* With the token in the environment only and no issue, in a live verbose
\* argument list, the issue entry alone was returned.
C26_Witness ==
  /\ Validated
  /\ cli.envToken = "ghp_env"
  /\ cli.cliArgs.token = NullValue
  /\ cli.cliArgs.dryRun = "false"
  /\ cli.cliArgs.verbose
  /\ cli.missing = <<MissingIssue>>

\* ------------------------------------------------------------------ C27
\* main has called processIssueRecursively.
Started == stack # <<>> \/ log # <<>>

NonInteractive == cli.cliArgs.nonInteractive

\* C27 as stated: a non-interactive traversal is live only when the last
\* --dry-run/-d or --live/-l of the command line is --live/-l, and is a dry
\* run when the command line holds none of them.
C27_Original ==
  (NonInteractive /\ Started) =>
    /\ ~dryRun => ModeAsked(cli.args, DOMAIN cli.args) = "false"
    /\ ModeAsked(cli.args, DOMAIN cli.args) = "null" => dryRun

\* C27 as amended: the argument behind an --issue/-i or --token/-t is that
\* option's value and no mode flag.  A non-interactive traversal is live
\* exactly when the last of the other --dry-run/-d and --live/-l arguments
\* is --live/-l; with none of them it is a dry run.
C27_LiveOnlyWhenAskedLast ==
  (NonInteractive /\ Started) =>
    dryRun = (ModeAsked(cli.args, Options(cli.args)) # "false")

\* A non-interactive live run that closed the root, its command line
\* holding a --dry-run that is the value of -i.
C27_Witness ==
  /\ NonInteractive
  /\ ~dryRun
  /\ issueState[1] = "closed"
  /\ cli.stopped = "complete"
  /\ \E k \in DOMAIN cli.args :
       IsValue(cli.args, k) /\ cli.args[k] \in DryFlags

\* ------------------------------------------------------------------ C28
\* The checks a started traversal has behind it, in their order; the
\* validation of the arguments belongs to non-interactive mode.
ChecksPassed ==
  (IF NonInteractive THEN <<"validated">> ELSE <<>>)
    \o <<"authenticated", "parsed">>

\* One of the three checks failed.
CheckFailed == cli.stopped \in {"missing", "authentication", "format"}

\* C28: the traversal starts only after the validation of the
\* non-interactive arguments, the authentication and the resolution of the
\* issue reference succeeded, in this order; when one of them fails the
\* process exits with code 1 and the store saw no issues.get, listSubIssues,
\* update or createComment.
C28_ChecksBeforeTraversal ==
  /\ Started =>
       /\ cli.passed = ChecksPassed
       /\ NonInteractive => cli.missing = <<>>
       /\ NonInteractive =>
            ValidateNonInteractiveMode(cli.cliArgs, cli.envToken) = <<>>
       /\ issueInfo = ParseIssueInput(issueInput)
       /\ issueInfo.found
  /\ CheckFailed =>
       /\ pc = "exited"
       /\ cli.exitCode = 1
       /\ ~Started
       /\ log = <<>>
  /\ (NonInteractive /\ cli.missing # <<>>) => cli.stopped = "missing"
  /\ (pc \in {"mode", "exited"} /\ ~Started /\ issueInput # <<>>
        /\ cli.stopped # "format")
       => ParseIssueInput(issueInput).found

\* A non-interactive run that passed the three checks and completed its
\* traversal.
C28_Witness ==
  /\ NonInteractive
  /\ cli.passed = <<"validated", "authenticated", "parsed">>
  /\ cli.stopped = "complete"
  /\ log # <<>>

\* ------------------------------------------- index.js: main with --token
\* The words of a command line that may give the token: as MainWords, with
\* -t in the place of --dry-run.  The token is whatever follows -t.
TokenWords == {"-y", "-t", "-i", "owner/repo#1", "--live"}

InitMainToken ==
  /\ tree = [i \in 2..MaxItems |-> IF i = 2 THEN 1 ELSE 2]
  /\ mode = "consistent"
  /\ dryRun = TRUE
  /\ verbose = FALSE
  /\ issueState = [i \in Items |-> IF i = 1 THEN "open" ELSE "closed"]
  /\ stack = <<>>
  /\ log = <<>>
  /\ rets = <<>>
  /\ seen = [i \in Items |-> Unseen]
  /\ out = 0
  /\ pc = "main"
  /\ result = ClosedResult
  /\ error = NoError
  /\ earlier = <<>>
  /\ listing = NoListing
  /\ issueInput = <<>>
  /\ issueInfo = Null
  /\ \E args \in ArgLists(TokenWords, MaxArgv) :
       \E envToken \in {Undefined, "ghp_env"} :
         cli = [NoCli EXCEPT !.args = args, !.envToken = envToken]

NextMainToken == NextMain

SpecMainToken == InitMainToken /\ [][NextMainToken]_vars

\* --------------------------- the traversal over trees and over cycles
\* Deepest nesting of calls followed.
MaxDepth == 6

\* Hierarchies with a cycle: issues 2 and 3 are each the other's only
\* parent, the further issues are sub-issues of one of them; the run starts
\* on issue 2.
Cycles ==
  { t \in [2..MaxItems -> {2, 3}] :
      t[2] = 3 /\ t[3] = 2 /\ \A i \in 4..MaxItems : t[i] < i }

RootOf(t) == IF t \in Trees THEN 1 ELSE 2

InitHierarchy ==
  /\ tree \in Trees \cup Cycles
  /\ mode = "consistent"
  /\ dryRun = FALSE
  /\ verbose = FALSE
  /\ issueState \in [Items -> {"open", "closed"}]
  /\ stack = <<Frame(OwnerOf(RootOf(tree)), RepoOf(RootOf(tree)),
                     NumberOf(RootOf(tree)), 0)>>
  /\ log = <<>>
  /\ rets = <<>>
  /\ seen = [i \in Items |-> Unseen]
  /\ out = 0
  /\ pc = "running"
  /\ result = ClosedResult
  /\ error = NoError
  /\ earlier = <<>>
  /\ listing = NoListing
  /\ issueInput = <<>>
  /\ issueInfo = Null
  /\ cli = NoCli

\* The loop descends while the nesting is within the depth followed.
VisitSubIssueWithin == VisitSubIssue /\ Len(stack) < MaxDepth

\* The store answers every call: no request is rejected, but for the
\* listing's 404 that getSubIssues takes as an empty list.
NextHierarchy ==
  \/ FetchIssue
  \/ ListSubIssues
  \/ VisitSubIssueWithin
  \/ RefetchIssue
  \/ UpdateIssue
  \/ CreateComment

\* Every await is resumed once its request is answered.
SpecHierarchy ==
  InitHierarchy /\ [][NextHierarchy]_vars /\ WF_vars(NextHierarchy)

\* ------------------------------------------------- getSubIssues, at length
\* Most sub-issues the store holds for one issue.
MaxListed == 102

\* The sub-issues the store holds for an issue that has n of them, by number.
StoredSubIssues(n) == [k \in 1..n |-> k]

InitList ==
  /\ tree = [i \in 2..MaxItems |-> 1]
  /\ mode = "consistent"
  /\ dryRun = TRUE
  /\ verbose = FALSE
  /\ issueState = [i \in Items |-> "open"]
  /\ stack = <<>>
  /\ log = <<>>
  /\ rets = <<>>
  /\ seen = [i \in Items |-> Unseen]
  /\ out = 0
  /\ pc = "list"
  /\ result = ClosedResult
  /\ error = NoError
  /\ earlier = <<>>
  /\ issueInput = <<>>
  /\ issueInfo = Null
  /\ cli = NoCli
  /\ \E n \in 0..MaxListed : listing = [NoListing EXCEPT !.total = n]

\* Lines 106-113: one listSubIssues request with per_page and no page;
\* the store answers with its first page, which is returned.
GetSubIssuesCall ==
  /\ pc = "list"
  /\ listing' =
       [listing EXCEPT
          !.requests = Append(@, [per_page |-> PerPage]),
          !.subIssues = FirstPage(StoredSubIssues(listing.total))]
  /\ pc' = "loop"
  /\ UNCHANGED <<config, issueState, stack, log, rets, seen, out, result,
                 error, earlier, issueInput, issueInfo, cli>>

\* Lines 219-232: the loop visits the next of the sub-issues returned.
VisitListed ==
  /\ pc = "loop"
  /\ listing.visited < Len(listing.subIssues)
  /\ listing' = [listing EXCEPT !.visited = @ + 1]
  /\ UNCHANGED <<config, issueState, stack, log, rets, seen, out, pc, result,
                 error, earlier, issueInput, issueInfo, cli>>

\* Line 236: the loop has visited all that was returned.
LoopEnds ==
  /\ pc = "loop"
  /\ listing.visited = Len(listing.subIssues)
  /\ pc' = "looped"
  /\ UNCHANGED <<config, issueState, stack, log, rets, seen, out, result,
                 error, earlier, issueInput, issueInfo, cli, listing>>

NextList ==
  \/ GetSubIssuesCall
  \/ VisitListed
  \/ LoopEnds

SpecList == InitList /\ [][NextList]_vars

\* ---------------------------------- the traversal against a truthful store
\* The runs whose every answer is the store's state: the order of the
\* requests is read off these.
InitOrder == Init /\ mode = "consistent"

NextOrder == Next

SpecOrder == InitOrder /\ [][NextOrder]_vars

\* ------------------------------------------------------------------ C29
\* Issue j lies in the subtree of issue i.
RECURSIVE InSubtree(_, _)
InSubtree(j, i) == j = i \/ (j > 1 /\ InSubtree(tree[j], i))

\* The store was asked about issue i.
Touched(i) ==
  seen[i].gets + seen[i].lists + seen[i].updates + seen[i].comments > 0

\* The issue the k-th pending call is about.
StackItem(k) ==
  ItemAt(stack[k].owner, stack[k].repo, stack[k].issue_number)

\* A call for issue i is pending.
Active(i) == \E k \in DOMAIN stack : StackItem(k) = i

\* Sub-issues c and d of one issue, c listed before d.
ListedBefore(c, d) == c > 1 /\ d > 1 /\ tree[c] = tree[d] /\ c < d

\* Every pending call but the topmost waits in its loop for the call right
\* above it, which is the call for one of its sub-issues.
OneCallRuns ==
  \A k \in 1..(Len(stack) - 1) :
    /\ stack[k].at = "loop"
    /\ StackItem(k + 1) > 1
    /\ tree[StackItem(k + 1)] = StackItem(k)
    /\ stack[k + 1].depth = stack[k].depth + 1

\* Once the store was asked about the subtree of a sub-issue, the calls for
\* the sub-issues listed before it have returned, with all of their
\* subtrees.
SiblingsInOrder ==
  \A c, d \in 2..MaxItems :
    (ListedBefore(c, d) /\ \E j \in Items : InSubtree(j, d) /\ Touched(j))
      => /\ Visits(c) = 1
         /\ \A j \in Items : InSubtree(j, c) => ~Active(j)

\* A step makes at most one request, and makes it for the topmost call.
TopCallAsks ==
  /\ Len(log') <= Len(log) + 1
  /\ \A i \in Items : seen'[i] # seen[i] => (stack # <<>> /\ TopItem = i)
  /\ log' # log =>
       /\ stack # <<>>
       /\ log'[Len(log')].owner = Top.owner
       /\ log'[Len(log')].repo = Top.repo
       /\ log'[Len(log')].issue_number = Top.issue_number

\* C29: the sub-issues are processed one at a time in the order of their
\* listing: the store is asked about the subtree of a sub-issue only when
\* the calls for the sub-issues listed before it have returned with their
\* whole subtrees, only the topmost call asks the store, one request a step,
\* and every other pending call waits for the one above it.
C29_SubIssuesOneAtATime ==
  [](OneCallRuns /\ SiblingsInOrder) /\ [][TopCallAsks]_vars

\* The second sub-issue of the root is being asked about, the first having
\* returned with a sub-issue of its own visited.
C29_Witness ==
  /\ \E c, d \in 2..MaxItems :
       /\ tree[c] = 1 /\ tree[d] = 1 /\ c < d
       /\ Touched(d)
       /\ Visits(c) = 1
       /\ \E j \in 2..MaxItems : tree[j] = c /\ Visits(j) = 1

\* ------------------------------------------------------------------ C30
\* Issue j is a descendant of issue i.
Below(j, i) == j # i /\ InSubtree(j, i)

\* The returned call for issue i counted the issue itself as closed.
CountedItself(i) ==
  \E k \in DOMAIN rets :
    rets[k].item = i /\ rets[k].closed = rets[k].subClosed + 1

\* The closure of an issue is decided by its re-fetch: an issue is closed,
\* or counted, exactly when its second fetch showed all sub-issues complete.
DecidedByRefetch ==
  \A i \in Items :
    /\ seen[i].updates > 0 => (~dryRun /\ i \in CountedClosed)
    /\ Visits(i) = 1 =>
         (CountedItself(i) <=> (i \in CountedClosed /\ WasRefetched(i)))
    /\ WasRefetched(i) => \A j \in Items : Below(j, i) => ~Active(j)

\* Once an issue is re-fetched the store is asked nothing more about its
\* descendants; and an issue is closed while none of its ancestors is
\* re-fetched or closed.
DescendantsFirst ==
  \A i, j \in Items :
    Below(j, i) =>
      /\ WasRefetched(i) => seen'[j] = seen[j]
      /\ seen'[j].updates > seen[j].updates =>
           (~WasRefetched(i) /\ seen[i].updates = 0)
      /\ seen'[i].second # seen[i].second => ~Active(j)

\* C30: an issue is closed, or counted as would-close, on the answer of a
\* re-fetch that is made when the calls for all of its descendants have
\* returned and after which the store is asked nothing more about them; so
\* a descendant closed in the run is closed before its ancestor.
C30_ClosuresInPostOrder ==
  []DecidedByRefetch /\ [][DescendantsFirst]_vars

\* A live run closed a sub-issue with its own sub-issue, then the root.
C30_Witness ==
  /\ ~dryRun
  /\ seen[1].updates = 1
  /\ \E i, j \in 2..MaxItems :
       /\ tree[i] = 1 /\ tree[j] = i
       /\ issueState[j] = "closed"
       /\ seen[i].updates = 1
       /\ seen[i].comments = 1

\* ------------------------------------------------------------------ C31
\* The request made right before the last one.
Previous == log[Len(log) - 1]

\* C31: closeIssue asks issues.update for state 'closed' with state_reason
\* 'completed' and, only when that request succeeded, asks
\* issues.createComment for the same owner, repo and issue; when the update
\* fails the run ends with no comment posted for the issue.
C31_UpdateThenComment ==
  /\ LastIs({"update"}) =>
       /\ Last.args.state = "closed"
       /\ Last.args.state_reason = "completed"
       /\ Last.status # 200 => (pc = "failed" /\ seen[LastItem].comments = 0)
  /\ LastIs({"createComment"}) =>
       /\ Len(log) > 1
       /\ Previous.op = "update"
       /\ Previous.status = 200
       /\ Previous.owner = Last.owner
       /\ Previous.repo = Last.repo
       /\ Previous.issue_number = Last.issue_number
       /\ Last.args.body = CloseReason
  /\ \A i \in Items : seen[i].comments <= seen[i].updates

\* A sub-issue was closed and its comment posted right after the update.
C31_Witness ==
  /\ LastIs({"createComment"})
  /\ Last.status = 200
  /\ Last.depth > 0
  /\ Previous.op = "update"
  /\ issueState[LastItem] = "closed"

\* ------------------------------------------------------------------ C32
\* The update that was to close issue i failed.
UpdateFailed(i) ==
  /\ LastIs({"update"})
  /\ Last.status # 200
  /\ LastItem = i

\* The issues a run closed or is closing, or would close when dry: their
\* re-fetch showed all sub-issues complete and, in a live run, the update
\* did not fail.
ClosedOrWouldBe == { i \in Items : Refetched100(i) /\ ~UpdateFailed(i) }

\* C32: a quiet traversal writes one line for each issue it closes or would
\* close and none for any other issue, and a run that returns has written
\* as many lines as its closed count.
C32_QuietLinePerClosure ==
  ~verbose =>
    /\ out = Cardinality(ClosedOrWouldBe)
    /\ Done => out = result.closed

\* ------------------------------------------------------------------ C33
\* The prompts put to the user end with the live-mode confirmation.
AskedToProceed ==
  /\ cli.prompts # <<>>
  /\ cli.prompts[Len(cli.prompts)] = "confirm live"

\* The store as main found it.
Untouched ==
  /\ log = <<>>
  /\ \A i \in Items : ~Touched(i)
  /\ issueState = [i \in Items |-> IF i = 1 THEN "open" ELSE "closed"]

\* C33: without -y/--yes a live traversal starts only when the user was
\* asked 'Are you sure you want to proceed?' and agreed; when the user
\* declines, the process exits with code 0 and no issue was read or
\* modified.
C33_LiveRunIsConfirmed ==
  /\ (~NonInteractive /\ Started /\ ~dryRun) =>
       (AskedToProceed /\ cli.stopped \notin {"declined", "cancelled"})
  /\ cli.stopped = "declined" =>
       /\ AskedToProceed
       /\ ~NonInteractive
       /\ pc = "exited"
       /\ cli.exitCode = 0
       /\ ~Started
       /\ Untouched

\* An interactive live run, confirmed, closed the root.
C33_Witness ==
  /\ ~NonInteractive
  /\ ~dryRun
  /\ AskedToProceed
  /\ cli.stopped = "complete"
  /\ issueState[1] = "closed"
  /\ seen[1].updates = 1

\* ------------------------------------------------------------------ C39
\* The arguments of a non-interactive run passed their validation.
ValidationPassed ==
  /\ NonInteractive
  /\ cli.passed # <<>>
  /\ cli.passed[1] = "validated"

\* C39: a non-interactive run whose arguments passed validation puts no
\* prompt to the user: its token is the one of --token or else GITHUB_TOKEN,
\* its issue the one of --issue, its mode the one the flags ask for or else
\* dry run, and a live run starts unconfirmed.
C39_NonInteractiveNeverPrompts ==
  ValidationPassed =>
    /\ cli.prompts = <<>>
    /\ cli.stopped \notin {"cancelled", "declined", "issue required"}
    /\ cli.token # NullValue =>
         cli.token = IF Truthy(cli.cliArgs.token) THEN cli.cliArgs.token
                     ELSE cli.envToken
    /\ issueInput # <<>> => issueInput = Spelling(cli.cliArgs.issue)
    /\ Started =>
         dryRun = (ModeAsked(cli.args, Options(cli.args)) # "false")

\* A non-interactive live run with the token of --token and none in the
\* environment closed the root.
C39_Witness ==
  /\ ValidationPassed
  /\ cli.envToken = Undefined
  /\ cli.token = cli.cliArgs.token
  /\ ~dryRun
  /\ cli.stopped = "complete"
  /\ seen[1].updates = 1

\* ------------------------------------------------------------------ C34
\* C34: every {processed, closed} a call of processIssueRecursively returns
\* has 0 <= closed <= processed, and has processed >= 1 exactly when the
\* first fetch of its issue reported the issue open.
C34_ClosedWithinProcessed ==
  \A k \in DOMAIN rets :
    /\ 0 <= rets[k].closed
    /\ rets[k].closed <= rets[k].processed
    /\ (rets[k].processed >= 1) <=> FetchedOpen(rets[k].item)

\* Returned so far: a closed sub-issue with 0 processed, an open one with
\* as many closed as processed, and one with fewer.
C34_Witness ==
  /\ \E k \in DOMAIN rets : rets[k].processed = 0 /\ rets[k].depth > 0
  /\ \E k \in DOMAIN rets :
       rets[k].processed >= 1 /\ rets[k].closed = rets[k].processed
  /\ \E k \in DOMAIN rets :
       rets[k].processed >= 1 /\ rets[k].closed < rets[k].processed

\* ------------------------------------------------------------------ C35
\* Issues 2 and 3 form a cycle of open issues.
OpenCycle ==
  /\ tree[2] = 3
  /\ tree[3] = 2
  /\ issueState[2] = "open"
  /\ issueState[3] = "open"

\* C35: over a tree, and over any hierarchy without a cycle of open issues,
\* a run whose every call is answered returns a result; over a cycle of
\* open issues, as long as every listing is answered with the sub-issues,
\* no call ever returns, the issues being fetched again and again: nothing
\* stops the revisiting.
C35_TerminatesWithoutOpenCycle ==
  /\ <>(Done \/ OpenCycle)
  /\ []((OpenCycle /\ Unlisted = {}) => (rets = <<>> /\ pc = "running"))

\* A run over a chain of three issues returned, each visited once.
C35_Witness ==
  /\ Done
  /\ tree \in Trees
  /\ tree[3] = 2
  /\ tree[2] = 1
  /\ Visits(1) = 1 /\ Visits(2) = 1 /\ Visits(3) = 1

\* ------------------------------------------------------------------ C36
\* This run follows a live run that returned.
AfterLiveRun ==
  /\ earlier # <<>>
  /\ earlier[1].kind = "rerun"
  /\ ~earlier[1].dryRun

RefetchedClosed100(i) ==
  /\ seen[i].second.state = "closed"
  /\ seen[i].second.sub_issues_summary.present
  /\ seen[i].second.sub_issues_summary.percent_completed = 100

\* C37: the state the re-fetch reports plays no part in the decision: an
\* issue that the re-fetch reports closed with 100% complete is, in a live
\* run, updated and commented like any other, and counted in closed.
C37_RefetchedStateIgnored ==
  ~dryRun =>
    \A i \in Items :
      RefetchedClosed100(i) =>
        /\ \/ seen[i].updates = 1
           \/ stack # <<>> /\ TopItem = i /\ Top.at = "update"
        /\ Visits(i) = 1 =>
             /\ seen[i].updates = 1
             /\ seen[i].comments = 1
             /\ CountedItself(i)

\* An issue fetched open and re-fetched closed was updated, commented and
\* counted.
C37_Witness ==
  /\ ~dryRun
  /\ \E i \in Items :
       /\ seen[i].first.state = "open"
       /\ RefetchedClosed100(i)
       /\ seen[i].updates = 1
       /\ seen[i].comments = 1
       /\ Visits(i) = 1
       /\ CountedItself(i)

\* ------------------------------------------------------------------ C38
\* The first n of the sub-issues the store holds.
FirstOf(n) == [k \in 1..(IF listing.total < n THEN listing.total ELSE n) |-> k]

====
